---- MODULE Spec2Model ----
(***************************************************************************)
(* Verification model of the VG5000 emulation core: the EF9345 video       *)
(* display processor (ef9345.h), the 7807 bus decoder and the system tick  *)
(* loop (vg5000.h) and the cassette recorder (cass_vg5000.h).              *)
(*                                                                         *)
(* The module holds several specifications over the same variables, one    *)
(* per component; a specification leaves the variables of the other        *)
(* components at their idle value.                                         *)
(*   SpecTranscode  the video-RAM address transcoding (pure functions)     *)
(*   SpecTape       the cassette recorder                                  *)
(*   SpecVdp        the EF9345 driven pin by pin                           *)
(*   SpecDecoder    the 7807 decoder (pure function)                       *)
(*   SpecSys        vg5000_exec / _vg5000_tick with the decoder and VDP    *)
(***************************************************************************)
EXTENDS Integers, Sequences, FiniteSets, TLC

VARIABLES
    tc,         \* transcoding check: the triple last transcoded and its results
    recorder,   \* tape_recorder_t
    tape_op,    \* the last tape recorder operation and its return value
    vdp,        \* ef9345_t
    vdp_obs,    \* observer of the VDP bus: ticks made, last bus events, bytes written
    dec,        \* decoder check: the CPU pins last decoded and the decoder's outputs
    sys         \* vg5000_t and the position of vg5000_exec in its loop

vars == <<tc, recorder, tape_op, vdp, vdp_obs, dec, sys>>

(***************************************************************************)
(* C integer operators on naturals.                                        *)
(***************************************************************************)
RECURSIVE BitAnd(_, _)
BitAnd(a, b) ==
    IF a = 0 \/ b = 0 THEN 0
    ELSE (IF a % 2 = 1 /\ b % 2 = 1 THEN 1 ELSE 0) + 2 * BitAnd(a \div 2, b \div 2)

RECURSIVE BitOr(_, _)
BitOr(a, b) ==
    IF a = 0 THEN b
    ELSE IF b = 0 THEN a
    ELSE (IF a % 2 = 1 \/ b % 2 = 1 THEN 1 ELSE 0) + 2 * BitOr(a \div 2, b \div 2)

Shl(a, n) == a * (2 ^ n)

Shr(a, n) == a \div (2 ^ n)

\* ~a on a value of w bits
BitNot(a, w) == (2 ^ w) - 1 - (a % (2 ^ w))

\* conversion to uint8_t / uint16_t
U8(a) == a % 256

U16(a) == a % 65536

(***************************************************************************)
(* EF9345: video-RAM address transcoding (ef9345.h)                        *)
(***************************************************************************)
\* Number of columns of a row (CHIPS_ASSERT(x < 40)) and of row values (y & 0x1f)
EF9345_COLUMNS == 40

EF9345_ROWS == 32

EF9345_RAM_SIZE == 8192

\* mutant: the bulk rows below column 32 lose the block bit
transcode_drops_block_bit(x, y, b0) ==
    IF y >= 8
    THEN IF BitAnd(x, 32) # 0
         THEN BitOr(Shl(b0, 10), BitOr(Shl(BitAnd(y, 7), 5), BitAnd(y, 24)))
         ELSE BitOr(BitAnd(x, 24), Shl(BitAnd(y, 31), 5))
    ELSE IF BitAnd(y, 1) # 0
         THEN LET not_x4and5 == U8(Shr(BitAnd(BitNot(x, 16), 48), 1))
                  base == BitOr(Shl(1, 7), not_x4and5)
              IN  IF b0 = 0
                  THEN BitOr(base, Shl(BitAnd(x, 8), 7))
                  ELSE BitOr(base, Shl(1, 10))
         ELSE BitOr(Shl(b0, 10), Shl(BitAnd(x, 56), 2))

\* mutant: the row is shifted by 9 instead of 5 in the bulk rows below column 32
transcode_row_shift_9(x, y, b0) ==
    IF y >= 8
    THEN IF BitAnd(x, 32) # 0
         THEN BitOr(Shl(b0, 10), BitOr(Shl(BitAnd(y, 7), 5), BitAnd(y, 24)))
         ELSE BitOr(Shl(b0, 10), BitOr(BitAnd(x, 24), Shl(BitAnd(y, 31), 9)))
    ELSE IF BitAnd(y, 1) # 0
         THEN LET not_x4and5 == U8(Shr(BitAnd(BitNot(x, 16), 48), 1))
                  base == BitOr(Shl(1, 7), not_x4and5)
              IN  IF b0 = 0
                  THEN BitOr(base, Shl(BitAnd(x, 8), 7))
                  ELSE BitOr(base, Shl(1, 10))
         ELSE BitOr(Shl(b0, 10), Shl(BitAnd(x, 56), 2))

_ef9345_transcode_physical_address(x, y, b0) ==
    IF y >= 8
    THEN IF BitAnd(x, 32) # 0
         THEN BitOr(Shl(b0, 10), BitOr(Shl(BitAnd(y, 7), 5), BitAnd(y, 24)))
         ELSE BitOr(Shl(b0, 10), BitOr(BitAnd(x, 24), Shl(BitAnd(y, 31), 5)))
    ELSE IF BitAnd(y, 1) # 0
         THEN LET not_x4and5 == U8(Shr(BitAnd(BitNot(x, 16), 48), 1))
                  base == BitOr(Shl(1, 7), not_x4and5)
              IN  IF b0 = 0
                  THEN BitOr(base, Shl(BitAnd(x, 8), 7))
                  ELSE BitOr(base, Shl(1, 10))
         ELSE BitOr(Shl(b0, 10), Shl(BitAnd(x, 56), 2))

\* _ef9345_mp_to_physical_address on register values r6, r7
_ef9345_mp_to_physical_address(r6, r7) ==
    LET x == BitAnd(r7, 63)
        y == BitAnd(r6, 31)
        b0 == Shr(BitAnd(r7, 128), 7)
        transcoded == _ef9345_transcode_physical_address(x, y, b0)
        low_x == BitAnd(x, 7)
        high_z == BitOr(Shr(BitAnd(r7, 64), 6),
                        BitOr(Shr(BitAnd(r6, 32), 4), Shr(BitAnd(r6, 128), 5)))
    IN  BitOr(low_x, BitOr(transcoded, Shl(high_z, 11)))

\* _ef9345_ap_to_physical_address on register values r4, r5, r6
_ef9345_ap_to_physical_address(r4, r5, r6) ==
    LET x == BitAnd(r5, 63)
        y == BitAnd(r4, 31)
        b0_prime == Shr(BitAnd(r5, 128), 7)
        transcoded == _ef9345_transcode_physical_address(x, y, b0_prime)
        low_x == BitAnd(x, 7)
        high_z == BitOr(Shr(BitAnd(r5, 64), 6),
                        BitOr(Shr(BitAnd(r4, 32), 4), Shr(BitAnd(r6, 64), 4)))
    IN  BitOr(low_x, BitOr(transcoded, Shl(high_z, 11)))

_ef9345_triplet_to_physical_address(x, y, z) ==
    LET transcoded == _ef9345_transcode_physical_address(BitAnd(x, 63), BitAnd(y, 31), BitAnd(z, 1))
        low_x == BitAnd(x, 7)
        high_z == BitAnd(z, 14)
    IN  BitOr(low_x, BitOr(transcoded, Shl(high_z, 10)))

(***************************************************************************)
(* EF9345: registers, commands, bus interface and beam (ef9345.h)          *)
(***************************************************************************)
EF9345_REG_INDIRECT_TGS == 1

EF9345_REG_INDIRECT_MAT == 2

EF9345_REG_INDIRECT_PAT == 3

EF9345_REG_INDIRECT_ROR == 7

\* ticks of a line: EF9345_FREQUENCY / 1000000 * 64
tick_per_line == 768

\* EF9345_FREQUENCY / 1000000 * 10
tick_hblank_start == 120

\* EF9345_FREQUENCY / 1000000
tick_for_1mus == 12

\* active_scan_lines of _ef9345_beam_update
active_scan_lines == 250

\* C division, which truncates toward zero
CDiv(a, b) == IF a >= 0 THEN a \div b ELSE -((-a) \div b)

\* mem_rd on the video RAM mapped at 0x0000..0x1FFF; ram holds the non-zero bytes.
\* An address outside the mapped range reads the unmapped value 0xFF.
mem_rd(ram, addr) ==
    LET a == U16(addr)
    IN  IF a >= EF9345_RAM_SIZE THEN 255
        ELSE IF a \in DOMAIN ram THEN ram[a] ELSE 0

\* mem_wr on the video RAM; a write outside the mapped range is dropped
mem_wr(ram, addr, data) ==
    LET a == U16(addr)
    IN  IF a >= EF9345_RAM_SIZE THEN ram
        ELSE IF data = 0 THEN [k \in (DOMAIN ram) \ {a} |-> ram[k]]
        ELSE [k \in (DOMAIN ram) \cup {a} |-> IF k = a THEN data ELSE ram[k]]

_ef9345_recompute_configuration(v) ==
    [v EXCEPT
        !.lines_per_frame = IF BitAnd(v.indirect_regs[EF9345_REG_INDIRECT_TGS], 0) # 0
                            THEN 312 ELSE 262,
        !.interlaced = BitAnd(v.indirect_regs[EF9345_REG_INDIRECT_TGS], 1) # 0,
        !.char_code = BitOr(BitAnd(Shr(v.indirect_regs[EF9345_REG_INDIRECT_TGS], 6), 3),
                            BitAnd(Shr(v.indirect_regs[EF9345_REG_INDIRECT_PAT], 5), 4)),
        !.block_origin = Shr(BitAnd(v.indirect_regs[EF9345_REG_INDIRECT_ROR], 224), 4),
        !.origin_row_yor = BitAnd(v.indirect_regs[EF9345_REG_INDIRECT_ROR], 31)]

\* The pins the model follows: the multiplexed bus AD0-AD7, AS, DS, R/W and the two
\* sync outputs
PinsZero == [ad |-> 0, as |-> 0, ds |-> 0, rw |-> 0, vs |-> 0, hs |-> 0]

\* ef9345_init(ef9345, NULL): the structure after memset 0 and
\* _ef9345_init_memory_map. rom holds the non-zero bytes of the charset ROM array,
\* charset_mem tells whether _ef9345_init_charset_memory_map has mapped it.
\* row_loaded is the screen row whose characters row_buffer holds, -1 while it is
\* as memset left it.
\* asserted names the first CHIPS_ASSERT that failed ("none" if none did); the
\* structure goes on as in a build without assertions.
ef9345_init ==
    _ef9345_recompute_configuration(
        [direct_regs |-> [i \in 0 .. 7 |-> 0],
         indirect_regs |-> [i \in 0 .. 7 |-> 0],
         pins |-> PinsZero,
         l_address |-> 0, l_ds |-> 0, execution_flag |-> FALSE,
         ram |-> <<>>,
         rom |-> <<>>, charset_mem |-> "zeroed",
         line_tick |-> 0, current_line |-> 0,
         interlaced |-> FALSE, lines_per_frame |-> 0, char_code |-> 0,
         block_origin |-> 0, origin_row_yor |-> 0,
         latest_loaded_row_line |-> 0, latest_rendered_column |-> 0,
         row_loaded |-> -1,
         asserted |-> "none"])

\* ef9345_reset calls ef9345_init(ef9345, NULL)
ef9345_reset == ef9345_init

\* ef9345_init(ef9345, charset_range) with a charset: _ef9345_init_charset_memory_map
\* copies it to rom and maps rom in charset_mem
ef9345_init_charset(charset_range) ==
    [ef9345_init EXCEPT
        !.rom = [a \in {k \in DOMAIN charset_range : charset_range[k] # 0} |->
                    charset_range[a]],
        !.charset_mem = "mapped"]

\* mem_rd(&ef9345->charset_mem, slice_address) of the glyph rendering: the byte of
\* the mapped rom, or, through a charset_mem that memset zeroed and nothing mapped,
\* whatever the read through its null page pointer yields (undefined)
charset_rd(v, slice_address, undefined) ==
    IF v.charset_mem = "mapped"
    THEN IF slice_address \in DOMAIN v.rom THEN v.rom[slice_address] ELSE 0
    ELSE undefined

CHIPS_ASSERT(v, cond, name) ==
    IF cond \/ v.asserted # "none" THEN v ELSE [v EXCEPT !.asserted = name]

\* mutant: the row wraps from 31 to 0
_ef9345_incr_mp_y_wraps_to_zero(v) ==
    LET y == (BitAnd(v.direct_regs[6], 31) + 1) % 32
    IN  [v EXCEPT !.direct_regs[6] = BitOr(BitAnd(v.direct_regs[6], 224), y)]

_ef9345_incr_mp_y(v) ==
    LET y0 == BitAnd(v.direct_regs[6], 31) + 1
        y == IF y0 > 31 THEN y0 - 24 ELSE y0
    IN  [v EXCEPT !.direct_regs[6] = BitOr(BitAnd(v.direct_regs[6], 224), y)]

_ef9345_incr_mp_x(v, increment_y) ==
    LET x == (BitAnd(v.direct_regs[7], 63) + 1) % 40
        v1 == [v EXCEPT !.direct_regs[7] = BitOr(BitAnd(v.direct_regs[7], 192), x)]
    IN  IF x = 0 /\ increment_y THEN _ef9345_incr_mp_y(v1) ELSE v1

_ef9345_incr_ap_x(v) ==
    LET x == (BitAnd(v.direct_regs[5], 63) + 1) % 40
    IN  [v EXCEPT !.direct_regs[7] = BitOr(BitAnd(v.direct_regs[7], 192), x)]

\* The memory pointer address of a command, with the column assertion
MpAddress(v) ==
    [v |-> CHIPS_ASSERT(v, BitAnd(v.direct_regs[7], 63) < 40, "mp: x < 40"),
     address |-> _ef9345_mp_to_physical_address(v.direct_regs[6], v.direct_regs[7])]

ApAddress(v) ==
    [v |-> CHIPS_ASSERT(v, BitAnd(v.direct_regs[5], 63) < 40, "ap: x < 40"),
     address |-> _ef9345_ap_to_physical_address(v.direct_regs[4], v.direct_regs[5],
                                                v.direct_regs[6])]

\* case 0x00, (command_param & 0x06) == 0x02: KRG
CommandKRG(v0, command_param) ==
    LET is_read == BitAnd(command_param, 8) # 0
        auto_incr == BitAnd(command_param, 1) # 0
        a == MpAddress(v0)
        v == a.v
        v1 == IF is_read
              THEN [v EXCEPT !.direct_regs[1] = mem_rd(v.ram, a.address),
                             !.direct_regs[2] = mem_rd(v.ram, a.address + 1024)]
              ELSE [v EXCEPT !.ram = mem_wr(mem_wr(v.ram, a.address, v.direct_regs[1]),
                                            a.address + 1024, v.direct_regs[2])]
    IN  IF auto_incr THEN _ef9345_incr_mp_x(v1, FALSE) ELSE v1

\* case 0x30: OCT
CommandOCT(v0, command_param) ==
    LET is_read == BitAnd(command_param, 8) # 0
        is_aux == BitAnd(command_param, 4) # 0
        auto_incr == BitAnd(command_param, 1) # 0
        a == IF is_aux THEN ApAddress(v0) ELSE MpAddress(v0)
        v == a.v
        v1 == IF is_read
              THEN [v EXCEPT !.direct_regs[1] = mem_rd(v.ram, a.address)]
              ELSE [v EXCEPT !.ram = mem_wr(v.ram, a.address, v.direct_regs[1])]
    IN  IF auto_incr
        THEN IF is_aux THEN _ef9345_incr_ap_x(v1) ELSE _ef9345_incr_mp_x(v1, TRUE)
        ELSE v1

\* mutant: a write to an indirect register does not recompute the configuration
CommandIND_write_keeps_cache(v, command_param) ==
    LET reg_num == BitAnd(command_param, 7)
        is_read == BitAnd(command_param, 8) # 0
    IN  IF is_read
        THEN _ef9345_recompute_configuration(
                [v EXCEPT !.direct_regs[1] = v.indirect_regs[reg_num]])
        ELSE [v EXCEPT !.indirect_regs[reg_num] = v.direct_regs[1]]

\* case 0x80: IND
CommandIND(v, command_param) ==
    LET reg_num == BitAnd(command_param, 7)
        is_read == BitAnd(command_param, 8) # 0
    IN  _ef9345_recompute_configuration(
            IF is_read
            THEN [v EXCEPT !.direct_regs[1] = v.indirect_regs[reg_num]]
            ELSE [v EXCEPT !.indirect_regs[reg_num] = v.direct_regs[1]])

\* mutant: command code 0xC0 is taken as an unimplemented command
_ef9345_start_execute_command_C0_unimplemented(v) ==
    LET command_code == BitAnd(v.direct_regs[0], 240)
        command_param == BitAnd(v.direct_regs[0], 15)
    IN  CASE command_code = 0 /\ BitAnd(command_param, 6) = 2 -> CommandKRG(v, command_param)
          [] command_code = 48 -> CommandOCT(v, command_param)
          [] command_code = 128 -> CommandIND(v, command_param)
          [] command_code = 176 -> _ef9345_incr_mp_y(v)
          [] command_code = 160 -> CHIPS_ASSERT(v, FALSE, "Unknown command code")
          [] OTHER -> v

\* mutant: every command of code 0x00 is executed as KRG
_ef9345_start_execute_command_KRF_as_KRG(v) ==
    LET command_code == BitAnd(v.direct_regs[0], 240)
        command_param == BitAnd(v.direct_regs[0], 15)
    IN  CASE command_code = 0 -> CommandKRG(v, command_param)
          [] command_code = 48 -> CommandOCT(v, command_param)
          [] command_code = 128 -> CommandIND(v, command_param)
          [] command_code = 176 -> _ef9345_incr_mp_y(v)
          [] command_code \in {160, 192} -> CHIPS_ASSERT(v, FALSE, "Unknown command code")
          [] OTHER -> v

_ef9345_start_execute_command(v) ==
    LET command_code == BitAnd(v.direct_regs[0], 240)
        command_param == BitAnd(v.direct_regs[0], 15)
    IN  CASE command_code = 0 /\ BitAnd(command_param, 6) = 2 -> CommandKRG(v, command_param)
          [] command_code = 48 -> CommandOCT(v, command_param)
          [] command_code = 128 -> CommandIND(v, command_param)
          [] command_code = 176 -> _ef9345_incr_mp_y(v)
          [] command_code \in {160, 192} -> CHIPS_ASSERT(v, FALSE, "Unknown command code")
          [] OTHER -> v

\* The register index of a read cycle: l_address & 0x0F
ReadRegNum(v) == BitAnd(v.l_address, 15)

\* mutant: the command is dispatched on the high level of R/W, not on its rising edge
BusWriteOrExecute_level_triggered(v1, pins1, previous_rw, latched, is_read) ==
    LET is_rw_falling_edge == previous_rw = 1 /\ pins1.rw = 0
        is_write == is_rw_falling_edge /\ v1.l_ds # 0 /\ BitAnd(v1.l_address, 32) = 32
        is_exec == pins1.rw = 1 /\ v1.execution_flag
    IN  [vdp |-> IF is_write
                 THEN [v1 EXCEPT !.direct_regs[BitAnd(v1.l_address, 7)] = pins1.ad]
                 ELSE IF is_exec THEN _ef9345_start_execute_command(v1)
                 ELSE v1,
         pins |-> pins1,
         latched |-> latched,
         read |-> is_read,
         wrote |-> is_write,
         executed |-> is_exec]

\* The write cycle and the command dispatch of _ef9345_external_bus_transfer, on the
\* falling and the rising edge of R/W; v1 and pins1 are the structure and the pins
\* after the address latch and the read cycle
BusWriteOrExecute(v1, pins1, previous_rw, latched, is_read) ==
    LET is_rw_falling_edge == previous_rw = 1 /\ pins1.rw = 0
        is_rw_rising_edge == previous_rw = 0 /\ pins1.rw = 1
        is_write == is_rw_falling_edge /\ v1.l_ds # 0 /\ BitAnd(v1.l_address, 32) = 32
        is_exec == is_rw_rising_edge /\ v1.execution_flag
    IN  [vdp |-> IF is_write
                 THEN [v1 EXCEPT !.direct_regs[BitAnd(v1.l_address, 7)] = pins1.ad]
                 ELSE IF is_exec THEN _ef9345_start_execute_command(v1)
                 ELSE v1,
         pins |-> pins1,
         latched |-> latched,
         read |-> is_read,
         wrote |-> is_write,
         executed |-> is_exec]

\* The read cycle of _ef9345_external_bus_transfer, on the falling edge of DS; v1 is
\* the structure after the address latch
BusRead(v1, previous_pins, vdp_pins, latched, oob) ==
    LET is_read == previous_pins.ds = 1 /\ vdp_pins.ds = 0 /\ v1.l_ds # 0
        reg_num == ReadRegNum(v1)
        data_out == IF BitAnd(reg_num, 7) # 0
                    THEN IF reg_num < 8 THEN v1.direct_regs[reg_num] ELSE oob
                    ELSE 0
    IN  BusWriteOrExecute(v1, IF is_read THEN [vdp_pins EXCEPT !.ad = data_out] ELSE vdp_pins,
                          previous_pins.rw, latched, is_read)

\* mutant: the address is latched while AS is low, not on its falling edge
_ef9345_external_bus_transfer_latches_on_level(v, vdp_pins, oob) ==
    LET is_as_falling_edge == vdp_pins.as = 0
    IN  BusRead(IF is_as_falling_edge
                THEN [v EXCEPT !.l_address = vdp_pins.ad,
                               !.l_ds = vdp_pins.ds,
                               !.execution_flag = BitAnd(vdp_pins.ad, 8) # 0]
                ELSE v,
                v.pins, vdp_pins, is_as_falling_edge, oob)

\* _ef9345_external_bus_transfer: the structure and the pins after it, and what it
\* did (for the observers): latched an address, drove the bus for a read, stored a
\* register, dispatched a command.
\* oob is the byte a read of direct_regs[8..15], beyond the array, yields.
_ef9345_external_bus_transfer(v, vdp_pins, oob) ==
    LET is_as_falling_edge == v.pins.as = 1 /\ vdp_pins.as = 0
    IN  BusRead(IF is_as_falling_edge
                THEN [v EXCEPT !.l_address = vdp_pins.ad,
                               !.l_ds = vdp_pins.ds,
                               !.execution_flag = BitAnd(vdp_pins.ad, 8) # 0]
                ELSE v,
                v.pins, vdp_pins, is_as_falling_edge, oob)

\* mutant: the 40 columns variable mode loads the row as the 40 columns long mode
_ef9345_load_char_row_40_var_loads(v, row) ==
    CASE v.char_code \in {4, 0, 1} -> [v EXCEPT !.row_loaded = row]
      [] v.char_code = 2 -> CHIPS_ASSERT(v, FALSE, "EF9345: 80 short char mode not implemented")
      [] v.char_code = 3 -> CHIPS_ASSERT(v, FALSE, "EF9345: 80 long char mode not implemented")
      [] OTHER -> CHIPS_ASSERT(v, FALSE, "EF9345: Unknown character code")

\* _ef9345_load_char_row: the 40 columns short and long modes fill row_buffer for the
\* row, the unimplemented character-code modes assert
_ef9345_load_char_row(v, row) ==
    CASE v.char_code = 4 -> [v EXCEPT !.row_loaded = row]
      [] v.char_code = 0 -> [v EXCEPT !.row_loaded = row]
      [] v.char_code = 1 -> CHIPS_ASSERT(v, FALSE, "EF9345: 40 var char mode not implemented")
      [] v.char_code = 2 -> CHIPS_ASSERT(v, FALSE, "EF9345: 80 short char mode not implemented")
      [] v.char_code = 3 -> CHIPS_ASSERT(v, FALSE, "EF9345: 80 long char mode not implemented")
      [] OTHER -> CHIPS_ASSERT(v, FALSE, "EF9345: Unknown character code")

\* mutant: the column step does not test the active display time
BeamRowAndColumn_no_display_time(v1, first_active_line, current_row, x) ==
    LET v2 == IF current_row >= 0 /\ v1.latest_loaded_row_line # current_row
              THEN IF current_row < 25
                   THEN _ef9345_load_char_row(
                            [v1 EXCEPT !.latest_loaded_row_line = current_row], current_row)
                   ELSE [v1 EXCEPT !.latest_loaded_row_line = current_row]
              ELSE v1
    IN  IF v1.current_line >= first_active_line /\ v1.current_line < v1.lines_per_frame
           /\ x # v1.latest_rendered_column
        THEN [v2 EXCEPT !.latest_rendered_column = x]
        ELSE v2

\* The row load and the column step of _ef9345_beam_update, for the line and the
\* tick it has just advanced to
BeamRowAndColumn(v1, first_active_line, current_row, x) ==
    LET v2 == IF current_row >= 0 /\ v1.latest_loaded_row_line # current_row
              THEN IF current_row < 25
                   THEN _ef9345_load_char_row(
                            [v1 EXCEPT !.latest_loaded_row_line = current_row], current_row)
                   ELSE [v1 EXCEPT !.latest_loaded_row_line = current_row]
              ELSE v1
    IN  IF v1.current_line >= first_active_line /\ v1.current_line < v1.lines_per_frame
           /\ v1.line_tick < 40 * tick_for_1mus /\ x # v1.latest_rendered_column
        THEN [v2 EXCEPT !.latest_rendered_column = x]
        ELSE v2

\* mutant: the horizontal sync lasts one tick more
BeamAt_long_hsync(v, vdp_pins, line_tick, current_line) ==
    [vdp |-> BeamRowAndColumn([v EXCEPT !.line_tick = line_tick,
                                        !.current_line = current_line],
                              v.lines_per_frame - active_scan_lines,
                              CDiv(current_line - (v.lines_per_frame - active_scan_lines), 10),
                              line_tick \div tick_for_1mus),
     pins |-> [vdp_pins EXCEPT !.vs = IF current_line < 2 THEN 0 ELSE 1,
                               !.hs = IF line_tick <= tick_hblank_start THEN 0 ELSE 1]]

\* The sync pins and the rest of _ef9345_beam_update, once the counters are advanced
BeamAt(v, vdp_pins, line_tick, current_line) ==
    [vdp |-> BeamRowAndColumn([v EXCEPT !.line_tick = line_tick,
                                        !.current_line = current_line],
                              v.lines_per_frame - active_scan_lines,
                              CDiv(current_line - (v.lines_per_frame - active_scan_lines), 10),
                              line_tick \div tick_for_1mus),
     pins |-> [vdp_pins EXCEPT !.vs = IF current_line < 2 THEN 0 ELSE 1,
                               !.hs = IF line_tick < tick_hblank_start THEN 0 ELSE 1]]

\* _ef9345_beam_update: the raster counters, the sync pins and the row and column
\* last loaded and rendered
_ef9345_beam_update(v, vdp_pins) ==
    BeamAt(v, vdp_pins, (v.line_tick + 1) % tick_per_line,
           IF (v.line_tick + 1) % tick_per_line = 0
           THEN (v.current_line + 1) % v.lines_per_frame
           ELSE v.current_line)

\* the pins kept for the next tick: ef9345->pins = vdp_pins
TickStorePins(t, b) == [t EXCEPT !.vdp = [b.vdp EXCEPT !.pins = b.pins], !.pins = b.pins]

\* the element of a one-element set
Only(S) == CHOOSE x \in S : TRUE

\* ef9345_tick: the bus transfer, the beam update, and the pins kept for the next tick
ef9345_tick(v, vdp_pins, oob) ==
    Only({Only({TickStorePins(t, b) : b \in {_ef9345_beam_update(t.vdp, t.pins)}}) :
            t \in {_ef9345_external_bus_transfer(v, vdp_pins, oob)}})

EF9345_FRAMEBUFFER_WIDTH == 320

\* _ef9345_render_8x10_alpha_char: the framebuffer offsets it stores to, in order.
\* Each of its three branches (character 0, double width, normal width) performs
\* eight stores fb[address++]; the bytes stored are not modelled.
_ef9345_render_8x10_alpha_char(x, address) == [pixel \in 1 .. 8 |-> address + pixel - 1]

\* The framebuffer offsets stored to by the _ef9345_beam_update that takes the chip
\* from v to v1: it renders exactly when it assigns latest_rendered_column, with
\* fb_address = (current_line - first_active_line) * EF9345_FRAMEBUFFER_WIDTH + x * 8
BeamFbStores(v, v1) ==
    IF v1.latest_rendered_column # v.latest_rendered_column
    THEN _ef9345_render_8x10_alpha_char(
             v1.latest_rendered_column,
             (v1.current_line - (v1.lines_per_frame - active_scan_lines))
                 * EF9345_FRAMEBUFFER_WIDTH + v1.latest_rendered_column * 8)
    ELSE <<>>

(***************************************************************************)
(* SpecTranscode: the transcoding functions applied to every pointer value *)
(***************************************************************************)
\* The addressing planes (high_z, bits 11-13 of the address) the pointers are drawn from
Planes == {0, 5}

Triples == (0 .. EF9345_COLUMNS - 1) \X (0 .. EF9345_ROWS - 1) \X {0, 1}

\* R6 and R7 holding the memory pointer (x, y, b0) in plane p
MpR6(y, p) == BitOr(y, BitOr(Shl(BitAnd(Shr(p, 1), 1), 5), Shl(BitAnd(Shr(p, 2), 1), 7)))

MpR7(x, b0, p) == BitOr(x, BitOr(Shl(BitAnd(p, 1), 6), Shl(b0, 7)))

\* The offset the named function computes for the triple (x, y, b0) in plane p
PhysicalOffset(via, x, y, b0, p) ==
    IF via = "mp"
    THEN _ef9345_mp_to_physical_address(MpR6(y, p), MpR7(x, b0, p))
    ELSE _ef9345_triplet_to_physical_address(x, y, BitOr(b0, Shl(p, 1)))

OffsetTable ==
    [via \in {"mp", "triplet"} |-> [p \in Planes |->
        [x \in 0 .. EF9345_COLUMNS - 1 |-> [y \in 0 .. EF9345_ROWS - 1 |->
            [b0 \in {0, 1} |-> PhysicalOffset(via, x, y, b0, p)]]]]]

TcIdle == [via |-> "none", x |-> 0, y |-> 0, b0 |-> 0, plane |-> 0,
           transcoded |-> 0, address |-> 0]

\* The inputs are drawn at the start: a triple and a plane, not yet transcoded
TranscodeInit ==
    /\ \E t \in Triples, p \in Planes :
          tc = [via |-> "none", x |-> t[1], y |-> t[2], b0 |-> t[3], plane |-> p,
                transcoded |-> 0, address |-> 0]
    /\ recorder = <<>>
    /\ tape_op = <<>>
    /\ vdp = <<>>
    /\ vdp_obs = <<>>
    /\ dec = <<>>
    /\ sys = <<>>

TranscodeMp ==
    /\ tc.via = "none"
    /\ tc' = [tc EXCEPT
                !.via = "mp",
                !.transcoded = _ef9345_transcode_physical_address(tc.x, tc.y, tc.b0),
                !.address = _ef9345_mp_to_physical_address(MpR6(tc.y, tc.plane),
                                                           MpR7(tc.x, tc.b0, tc.plane))]
    /\ UNCHANGED <<recorder, tape_op, vdp, vdp_obs, dec, sys>>

TranscodeTriplet ==
    /\ tc.via = "none"
    /\ tc' = [tc EXCEPT
                !.via = "triplet",
                !.transcoded = _ef9345_transcode_physical_address(tc.x, tc.y, tc.b0),
                !.address = _ef9345_triplet_to_physical_address(tc.x, tc.y,
                                BitOr(tc.b0, Shl(tc.plane, 1)))]
    /\ UNCHANGED <<recorder, tape_op, vdp, vdp_obs, dec, sys>>

TranscodeNext == TranscodeMp \/ TranscodeTriplet

SpecTranscode == TranscodeInit /\ [][TranscodeNext]_vars

\* Rows that hold a full row of 40 cells in each block: row 0 and the bulk rows 8..31
FullRow(y) == y = 0 \/ y >= 8

C7_TranscodedBelowRamSize ==
    tc.via # "none" => tc.transcoded < EF9345_RAM_SIZE

\* C7 witness: the largest transcoded offset (row 31, column 24..31, odd block)
C7_Witness ==
    tc.via # "none" /\ tc.x = 31 /\ tc.y = 31 /\ tc.b0 = 1 /\ tc.transcoded = 2040

(***************************************************************************)
(* Cassette recorder (cass_vg5000.h)                                       *)
(***************************************************************************)
SERVICE_BUS_PIN_RKY == 0

SERVICE_BUS_PIN_RK7 == 1

SERVICE_BUS_PIN_WK7 == 2

VG5000_MAX_TAPE_DATA_SIZE == 32768

VG5000_MAX_CODEC_SIZE == 12

\* tape_state_t
TapeStates == {"TAPE_INITIAL_SYNCHRO", "TAPE_HEADER_DATA", "TAPE_SECOND_SYNCHRO",
               "TAPE_PAYLOAD_DATA", "TAPE_FINISHED", "TAPE_ERROR"}

\* The tape buffer tape_t.data holds VG5000_MAX_TAPE_DATA_SIZE bytes; it is kept as
\* the sequence of its bytes up to the last non-zero one, the rest being zero.
RECURSIVE StripZeros(_)
StripZeros(d) ==
    IF d = <<>> THEN d
    ELSE IF d[Len(d)] = 0 THEN StripZeros(SubSeq(d, 1, Len(d) - 1))
    ELSE d

\* data[i] of the tape buffer, i counted from 0
DataAt(d, i) == IF i < Len(d) THEN d[i + 1] ELSE 0

\* memcpy(recorder->tape.data, src, size) on the buffer d
TapeMemcpy(d, src) ==
    StripZeros(src \o (IF Len(d) > Len(src) THEN SubSeq(d, Len(src) + 1, Len(d)) ELSE <<>>))

\* tape_information_t after memset 0
TapeInfoZero ==
    [format |-> 0, name |-> <<0, 0, 0, 0, 0, 0, 0>>, version |-> 0,
     start_line |-> <<0, 0, 0, 0, 0, 0>>, protection |-> 0, check_pos |-> 0,
     start_adr |-> 0, data_length |-> 0, checksum |-> 0]

\* tape_codec_t after memset 0
TapeCodecZero ==
    [pos |-> 0, state |-> "TAPE_INITIAL_SYNCHRO", current_byte |-> 0, bit_count |-> 0,
     valid_byte |-> 0, ticks_buf |-> [i \in 0 .. VG5000_MAX_CODEC_SIZE - 1 |-> 0]]

\* mutant: ejecting inserts no blank tape and leaves the codec where it is
tape_recorder_eject_tape_keeps_state(rec) ==
    [rec EXCEPT !.tape = [size |-> 0, data |-> <<>>],
                !.tape_index = 0,
                !.motor_on = FALSE]

tape_recorder_eject_tape(rec) ==
    [rec EXCEPT !.tape = [size |-> VG5000_MAX_TAPE_DATA_SIZE, data |-> <<>>],
                !.tape_index = 0,
                !.motor_on = FALSE,
                !.tape_codec.state = "TAPE_INITIAL_SYNCHRO"]

tape_recorder_init ==
    tape_recorder_eject_tape(
        [tape_index |-> 0, tape |-> [size |-> 0, data |-> <<>>],
         tape_info |-> TapeInfoZero, tape_codec |-> TapeCodecZero,
         soundin |-> "0.0", tick_counter |-> 0, data_value |-> 0,
         previous_data_value |-> 0, motor_on |-> FALSE])

_is_long_tick(tick) == (tick > 1500) /\ (tick < 2000)

_is_short_tick(tick) == (tick > 600) /\ (tick < 1000)

\* mutant: a synchro found does not publish the decoded byte
_wait_for_synchro_keeps_valid_byte(codec) ==
    LET buf == codec.ticks_buf
    IN  IF codec.pos = 2 /\ _is_long_tick(buf[0]) /\ _is_long_tick(buf[1])
        THEN [codec |-> [codec EXCEPT !.current_byte = 0, !.bit_count = 0],
              samples_consumed |-> 2, synchro_found |-> TRUE]
        ELSE IF codec.pos = 1 /\ ~_is_long_tick(buf[0])
        THEN [codec |-> codec, samples_consumed |-> 1, synchro_found |-> FALSE]
        ELSE IF codec.pos = 1 /\ _is_long_tick(buf[0])
        THEN [codec |-> codec, samples_consumed |-> 0, synchro_found |-> FALSE]
        ELSE [codec |-> [codec EXCEPT !.state = "TAPE_ERROR"],
              samples_consumed |-> 1, synchro_found |-> FALSE]

\* _wait_for_synchro: the codec after the call, the samples consumed and *synchro_found
_wait_for_synchro(codec) ==
    LET buf == codec.ticks_buf
    IN  IF codec.pos = 2 /\ _is_long_tick(buf[0]) /\ _is_long_tick(buf[1])
        THEN [codec |-> [codec EXCEPT !.valid_byte = codec.current_byte,
                                      !.current_byte = 0,
                                      !.bit_count = 0],
              samples_consumed |-> 2, synchro_found |-> TRUE]
        ELSE IF codec.pos = 1 /\ ~_is_long_tick(buf[0])
        THEN [codec |-> codec, samples_consumed |-> 1, synchro_found |-> FALSE]
        ELSE IF codec.pos = 1 /\ _is_long_tick(buf[0])
        THEN [codec |-> codec, samples_consumed |-> 0, synchro_found |-> FALSE]
        ELSE [codec |-> [codec EXCEPT !.state = "TAPE_ERROR"],
              samples_consumed |-> 1, synchro_found |-> FALSE]

\* mutant: the error state does not drain the bit counter before finishing
TapeCodecStep_error_skips_drain(codec) ==
    LET buf == codec.ticks_buf
    IN  CASE codec.state = "TAPE_INITIAL_SYNCHRO" ->
                LET w == _wait_for_synchro(codec)
                IN  [codec |-> IF w.synchro_found
                               THEN [w.codec EXCEPT !.state = "TAPE_HEADER_DATA"]
                               ELSE w.codec,
                     samples_consumed |-> w.samples_consumed]
          [] codec.state = "TAPE_HEADER_DATA" ->
                IF codec.bit_count < 8
                THEN IF codec.pos = 2 /\ _is_long_tick(buf[0]) /\ _is_long_tick(buf[1])
                     THEN [codec |-> [codec EXCEPT !.current_byte = Shr(codec.current_byte, 1),
                                                   !.bit_count = codec.bit_count + 1],
                           samples_consumed |-> 2]
                     ELSE IF codec.pos = 4 /\ _is_short_tick(buf[0]) /\ _is_short_tick(buf[1])
                                           /\ _is_short_tick(buf[2]) /\ _is_short_tick(buf[3])
                     THEN [codec |-> [codec EXCEPT
                                        !.current_byte = BitOr(Shr(codec.current_byte, 1), 128),
                                        !.bit_count = codec.bit_count + 1],
                           samples_consumed |-> 4]
                     ELSE IF codec.pos >= 4 \/ codec.pos < 0
                     THEN [codec |-> [codec EXCEPT !.state = "TAPE_ERROR", !.bit_count = 8],
                           samples_consumed |-> 4]
                     ELSE [codec |-> codec, samples_consumed |-> 0]
                ELSE LET w == _wait_for_synchro(codec)
                     IN  [codec |-> w.codec, samples_consumed |-> w.samples_consumed]
          [] codec.state = "TAPE_SECOND_SYNCHRO" ->
                [codec |-> [codec EXCEPT !.state = "TAPE_PAYLOAD_DATA"], samples_consumed |-> 0]
          [] codec.state = "TAPE_PAYLOAD_DATA" ->
                [codec |-> [codec EXCEPT !.state = "TAPE_INITIAL_SYNCHRO"], samples_consumed |-> 0]
          [] codec.state = "TAPE_ERROR" ->
                [codec |-> [codec EXCEPT !.state = "TAPE_FINISHED"], samples_consumed |-> 0]
          [] OTHER -> [codec |-> codec, samples_consumed |-> 0]

\* The switch on tape_codec->state of tape_recorder_tick: the codec after it and the
\* samples consumed
TapeCodecStep(codec) ==
    LET buf == codec.ticks_buf
    IN  CASE codec.state = "TAPE_INITIAL_SYNCHRO" ->
                LET w == _wait_for_synchro(codec)
                IN  [codec |-> IF w.synchro_found
                               THEN [w.codec EXCEPT !.state = "TAPE_HEADER_DATA"]
                               ELSE w.codec,
                     samples_consumed |-> w.samples_consumed]
          [] codec.state = "TAPE_HEADER_DATA" ->
                IF codec.bit_count < 8
                THEN IF codec.pos = 2 /\ _is_long_tick(buf[0]) /\ _is_long_tick(buf[1])
                     THEN [codec |-> [codec EXCEPT !.current_byte = Shr(codec.current_byte, 1),
                                                   !.bit_count = codec.bit_count + 1],
                           samples_consumed |-> 2]
                     ELSE IF codec.pos = 4 /\ _is_short_tick(buf[0]) /\ _is_short_tick(buf[1])
                                           /\ _is_short_tick(buf[2]) /\ _is_short_tick(buf[3])
                     THEN [codec |-> [codec EXCEPT
                                        !.current_byte = BitOr(Shr(codec.current_byte, 1), 128),
                                        !.bit_count = codec.bit_count + 1],
                           samples_consumed |-> 4]
                     ELSE IF codec.pos >= 4 \/ codec.pos < 0
                     THEN [codec |-> [codec EXCEPT !.state = "TAPE_ERROR", !.bit_count = 8],
                           samples_consumed |-> 4]
                     ELSE [codec |-> codec, samples_consumed |-> 0]
                ELSE LET w == _wait_for_synchro(codec)
                     IN  [codec |-> w.codec, samples_consumed |-> w.samples_consumed]
          [] codec.state = "TAPE_SECOND_SYNCHRO" ->
                [codec |-> [codec EXCEPT !.state = "TAPE_PAYLOAD_DATA"], samples_consumed |-> 0]
          [] codec.state = "TAPE_PAYLOAD_DATA" ->
                [codec |-> [codec EXCEPT !.state = "TAPE_INITIAL_SYNCHRO"], samples_consumed |-> 0]
          [] codec.state = "TAPE_ERROR" ->
                IF codec.bit_count > 0
                THEN [codec |-> [codec EXCEPT !.bit_count = codec.bit_count - 1],
                      samples_consumed |-> 1]
                ELSE [codec |-> [codec EXCEPT !.state = "TAPE_FINISHED"], samples_consumed |-> 0]
          [] OTHER -> [codec |-> codec, samples_consumed |-> 0]

\* mutant: the shift keeps the oldest samples and drops the newest
TicksBufShift_drops_newest(buf, n) ==
    [i \in 0 .. VG5000_MAX_CODEC_SIZE - 1 |->
        IF i + n < VG5000_MAX_CODEC_SIZE THEN buf[i] ELSE 0]

\* memmove(&ticks_buf[0], &ticks_buf[n], (VG5000_MAX_CODEC_SIZE - n) * sizeof(uint16_t))
TicksBufShift(buf, n) ==
    [i \in 0 .. VG5000_MAX_CODEC_SIZE - 1 |->
        IF i + n < VG5000_MAX_CODEC_SIZE THEN buf[i + n] ELSE buf[i]]

\* The "Tape Writing" block of tape_recorder_tick on a change of the data value.
\* pos is a size_t: a value below 0 stands for the wrapped value 2^64 + pos.
TapeWriteEdge(rec) ==
    LET codec0 == rec.tape_codec
        recorded == codec0.pos >= 0 /\ codec0.pos < VG5000_MAX_CODEC_SIZE
        codec1 == IF recorded
                  THEN [codec0 EXCEPT !.ticks_buf[codec0.pos] = rec.tick_counter,
                                      !.pos = codec0.pos + 1]
                  ELSE codec0
        step == TapeCodecStep(codec1)
        codec2 == IF step.samples_consumed > 0
                  THEN [step.codec EXCEPT
                          !.ticks_buf = TicksBufShift(step.codec.ticks_buf, step.samples_consumed),
                          !.pos = step.codec.pos - step.samples_consumed]
                  ELSE step.codec
    IN  [rec EXCEPT !.previous_data_value = rec.data_value,
                    !.tape_codec = codec2,
                    !.tick_counter = 0,
                    !.soundin = IF rec.data_value # 0 THEN "0.5" ELSE "0.0"]

\* mutant: the motor follows data bit 1 whatever the service bus selects
tape_recorder_tick_motor_unselected(rec, service_bus, data) ==
    LET write_k7 == BitAnd(service_bus, Shl(1, SERVICE_BUS_PIN_WK7)) = 0
        r1 == IF write_k7
              THEN [rec EXCEPT !.soundin = IF BitAnd(data, 8) # 0 THEN "0.5" ELSE "0.0",
                               !.data_value = BitAnd(data, 1)]
              ELSE rec
        r2 == [r1 EXCEPT !.motor_on = BitAnd(data, 2) # 0]
    IN  IF r2.motor_on /\ r2.tape.size > 0
        THEN LET r3 == [r2 EXCEPT !.tick_counter = U16(r2.tick_counter + 1)]
             IN  IF write_k7 /\ r3.data_value # r3.previous_data_value
                 THEN TapeWriteEdge(r3)
                 ELSE r3
        ELSE r2

\* tape_recorder_tick: one tick with the service bus and the CPU data byte
tape_recorder_tick(rec, service_bus, data) ==
    LET write_k7 == BitAnd(service_bus, Shl(1, SERVICE_BUS_PIN_WK7)) = 0
        read_k7 == BitAnd(service_bus, Shl(1, SERVICE_BUS_PIN_RK7)) = 0
        r1 == IF write_k7
              THEN [rec EXCEPT !.soundin = IF BitAnd(data, 8) # 0 THEN "0.5" ELSE "0.0",
                               !.data_value = BitAnd(data, 1)]
              ELSE rec
        r2 == IF write_k7 \/ read_k7
              THEN [r1 EXCEPT !.motor_on = BitAnd(data, 2) # 0]
              ELSE r1
    IN  IF r2.motor_on /\ r2.tape.size > 0
        THEN LET r3 == [r2 EXCEPT !.tick_counter = U16(r2.tick_counter + 1)]
             IN  IF write_k7 /\ r3.data_value # r3.previous_data_value
                 THEN TapeWriteEdge(r3)
                 ELSE r3
        ELSE r2

\* n >= 1 consecutive calls of tape_recorder_tick with the same arguments: the first
\* call may record a pulse, the second sets soundin from data bit 3 again, and from
\* then on the data value equals the previous one while the motor runs, so each
\* further call only counts a tick (SteadyTickLemma checks this step).
tape_recorder_tick_n(rec, service_bus, data, n) ==
    LET r1 == tape_recorder_tick(rec, service_bus, data)
        r2 == tape_recorder_tick(r1, service_bus, data)
    IN  IF n = 1 THEN r1
        ELSE IF r2.motor_on /\ r2.tape.size > 0
        THEN [r2 EXCEPT !.tick_counter = U16(r2.tick_counter + (n - 2))]
        ELSE r2

\* mutant: the total length of the image is not checked
_read_tape_information_no_total_length(rec) ==
    LET size == rec.tape.size
        d == rec.tape.data
        header(i) == DataAt(d, i)
        le16(i) == BitOr(Shl(header(i + 1), 8), header(i))
        info == [format |-> header(10),
                 name |-> [i \in 1 .. 7 |-> IF i <= 6 THEN header(10 + i) ELSE 0],
                 version |-> header(17),
                 start_line |-> [i \in 1 .. 6 |-> IF i <= 5 THEN header(17 + i) ELSE 0],
                 protection |-> header(23),
                 check_pos |-> le16(24),
                 start_adr |-> le16(26),
                 data_length |-> le16(28),
                 checksum |-> le16(30)]
    IN  IF size < 32
        THEN [success |-> FALSE, tape_info |-> rec.tape_info]
        ELSE IF \E i \in 0 .. 9 : header(i) # 211
        THEN [success |-> FALSE, tape_info |-> rec.tape_info]
        ELSE IF \E i \in 0 .. 9 : DataAt(d, 32 + i) # 214
        THEN [success |-> FALSE, tape_info |-> info]
        ELSE [success |-> TRUE, tape_info |-> info]

\* _read_tape_information: the return value and the tape_info it leaves
_read_tape_information(rec) ==
    LET size == rec.tape.size
        d == rec.tape.data
        header(i) == DataAt(d, i)
        le16(i) == BitOr(Shl(header(i + 1), 8), header(i))
        info == [format |-> header(10),
                 name |-> [i \in 1 .. 7 |-> IF i <= 6 THEN header(10 + i) ELSE 0],
                 version |-> header(17),
                 start_line |-> [i \in 1 .. 6 |-> IF i <= 5 THEN header(17 + i) ELSE 0],
                 protection |-> header(23),
                 check_pos |-> le16(24),
                 start_adr |-> le16(26),
                 data_length |-> le16(28),
                 checksum |-> le16(30)]
    IN  IF size < 32
        THEN [success |-> FALSE, tape_info |-> rec.tape_info]
        ELSE IF \E i \in 0 .. 9 : header(i) # 211
        THEN [success |-> FALSE, tape_info |-> rec.tape_info]
        ELSE IF \E i \in 0 .. 9 : DataAt(d, 32 + i) # 214
        THEN [success |-> FALSE, tape_info |-> info]
        ELSE IF size < 32 + info.data_length + 10
        THEN [success |-> FALSE, tape_info |-> info]
        ELSE [success |-> TRUE, tape_info |-> info]

\* mutant: the parsed header is not stored
tape_recorder_insert_tape_keeps_info(rec, k7_file_data) ==
    LET r1 == [rec EXCEPT !.tape = [size |-> Len(k7_file_data),
                                    data |-> TapeMemcpy(rec.tape.data, k7_file_data)],
                          !.tape_index = 0,
                          !.motor_on = FALSE]
        info == _read_tape_information(r1)
    IN  [recorder |-> r1, success |-> info.success]

\* mutant: inserting a tape restarts the codec as ejecting does
tape_recorder_insert_tape_restarts_codec(rec, k7_file_data) ==
    LET r1 == [rec EXCEPT !.tape = [size |-> Len(k7_file_data),
                                    data |-> TapeMemcpy(rec.tape.data, k7_file_data)],
                          !.tape_index = 0,
                          !.motor_on = FALSE,
                          !.tape_codec.state = "TAPE_INITIAL_SYNCHRO"]
        info == _read_tape_information(r1)
    IN  [recorder |-> [r1 EXCEPT !.tape_info = info.tape_info], success |-> info.success]

\* tape_recorder_insert_tape with an image of at most VG5000_MAX_TAPE_DATA_SIZE bytes:
\* the recorder after the call and the return value
tape_recorder_insert_tape(rec, k7_file_data) ==
    LET r1 == [rec EXCEPT !.tape = [size |-> Len(k7_file_data),
                                    data |-> TapeMemcpy(rec.tape.data, k7_file_data)],
                          !.tape_index = 0,
                          !.motor_on = FALSE]
        info == _read_tape_information(r1)
    IN  [recorder |-> [r1 EXCEPT !.tape_info = info.tape_info], success |-> info.success]

(***************************************************************************)
(* VG5000: the 7807 decoder, the system tick and vg5000_exec (vg5000.h)      *)
(***************************************************************************)
VDP_TICKS_PER_CPU_TICK == 3

\* The Z80 pins the system reads: address lines A3, A5, A6, A7, the control lines
\* (1 is asserted) and the data bus
CpuPinsZero ==
    [a3 |-> 0, a5 |-> 0, a6 |-> 0, a7 |-> 0, rd |-> 0, wr |-> 0, iorq |-> 0, mreq |-> 0,
     data |-> 0, int |-> 0, nmi |-> 0]

\* mutant: the C input of the decoder is the WR level, not inverted
decoder_output_wr_not_inverted(cpu_pins) ==
    LET input_G2 == IF BitAnd(BitOr(cpu_pins.rd, cpu_pins.wr), cpu_pins.iorq) # 0 THEN 0 ELSE 1
        input_G1 == cpu_pins.a7
    IN  IF input_G1 # 0 /\ input_G2 = 0
        THEN LET shift == BitOr(BitOr(Shl(cpu_pins.wr, 2), Shl(cpu_pins.a6, 1)), cpu_pins.a5)
             IN  BitNot(Shl(1, shift), 8)
        ELSE 255

\* The byte `output` of _vg5000_7807_decoder: the eight output lines of the 7807, in
\* their physical state
Decoder7807Output(cpu_pins) ==
    LET input_G2 == IF BitAnd(BitOr(cpu_pins.rd, cpu_pins.wr), cpu_pins.iorq) # 0 THEN 0 ELSE 1
        input_G1 == cpu_pins.a7
    IN  IF input_G1 # 0 /\ input_G2 = 0
        THEN LET input_c == BitAnd(BitNot(cpu_pins.wr, 8), 1)
                 shift == BitOr(BitOr(Shl(input_c, 2), Shl(cpu_pins.a6, 1)), cpu_pins.a5)
             IN  BitNot(Shl(1, shift), 8)
        ELSE 255

\* mutant: AS is driven with the level of output line 0
decoder_pins_as_not_inverted(output, vdp_pins, service_bus) ==
    [vdp_pins |-> [vdp_pins EXCEPT !.as = BitAnd(output, 1),
                                   !.ds = Shr(BitAnd(output, 64), 6),
                                   !.rw = Shr(BitAnd(output, 4), 2)],
     service_bus |->
        BitOr(BitOr(BitOr(BitAnd(service_bus, BitNot(7, 8)),
                          Shl(Shr(BitAnd(output, 16), 4), SERVICE_BUS_PIN_RKY)),
                    Shl(Shr(BitAnd(output, 32), 5), SERVICE_BUS_PIN_RK7)),
              Shl(Shr(BitAnd(output, 2), 1), SERVICE_BUS_PIN_WK7))]

\* The pins _vg5000_7807_decoder drives from `output`: AS, DS, R/W of the EF9345 and
\* RKY, RK7, WK7 of the service bus
Decoder7807Pins(output, vdp_pins, service_bus) ==
    [vdp_pins |-> [vdp_pins EXCEPT !.as = BitAnd(BitNot(output, 8), 1),
                                   !.ds = Shr(BitAnd(output, 64), 6),
                                   !.rw = Shr(BitAnd(output, 4), 2)],
     service_bus |->
        BitOr(BitOr(BitOr(BitAnd(service_bus, BitNot(7, 8)),
                          Shl(Shr(BitAnd(output, 16), 4), SERVICE_BUS_PIN_RKY)),
                    Shl(Shr(BitAnd(output, 32), 5), SERVICE_BUS_PIN_RK7)),
              Shl(Shr(BitAnd(output, 2), 1), SERVICE_BUS_PIN_WK7))]

_vg5000_7807_decoder(cpu_pins, vdp_pins, service_bus) ==
    Decoder7807Pins(Decoder7807Output(cpu_pins), vdp_pins, service_bus)

\* The part of _vg5000_tick that follows the EF9345 ticks: the read data, the
\* keyboard columns, the interrupt from VS, the saved VDP pins and the NMI line.
\* columns is what kbd_test_lines returns.
SysTickAfterVdp(s, cpu_pins, vdp_pins, columns) ==
    LET p1 == IF vdp_pins.ds = 0 THEN [cpu_pins EXCEPT !.data = vdp_pins.ad] ELSE cpu_pins
        rky == BitAnd(Shr(s.service_bus, SERVICE_BUS_PIN_RKY), 1)
        p2 == IF rky = 0 /\ p1.a3 = 0 THEN [p1 EXCEPT !.data = BitNot(columns, 8)] ELSE p1
    IN  [sys |-> [s EXCEPT !.vdp_pins = vdp_pins],
         cpu_pins |-> [p2 EXCEPT !.int = IF vdp_pins.vs = 0 THEN 1 ELSE 0,
                                 !.nmi = IF s.nmi THEN 1 ELSE 0]]

\* The results of the VDP_TICKS_PER_CPU_TICK calls of ef9345_tick in _vg5000_tick,
\* each called with the pins the one before returned
SysVdpSubTicks(v, vdp_pins, oob) ==
    Only({Only({Only({<<t1, t2, t3>> : t3 \in {ef9345_tick(t2.vdp, t2.pins, oob)}}) :
                  t2 \in {ef9345_tick(t1.vdp, t1.pins, oob)}}) :
            t1 \in {ef9345_tick(v, vdp_pins, oob)}})

\* The VDP_TICKS_PER_CPU_TICK calls of ef9345_tick in _vg5000_tick
SysTickVdp(v, vdp_pins, oob) == SysVdpSubTicks(v, vdp_pins, oob)[VDP_TICKS_PER_CPU_TICK]

\* The pins of the EF9345 as _vg5000_tick presents them: the decoder's AS, DS, R/W
\* and the Z80 data bus on AD0-AD7
SysVdpPins(d, cpu_pins) == [d.vdp_pins EXCEPT !.ad = cpu_pins.data]

SysTickDecoded(s, v, cpu_pins, d, oob, columns) ==
    Only({Only({[sys |-> a.sys, vdp |-> t.vdp, cpu_pins |-> a.cpu_pins] :
                  a \in {SysTickAfterVdp([s EXCEPT !.service_bus = d.service_bus],
                                         cpu_pins, t.pins, columns)}}) :
            t \in {SysTickVdp(v, SysVdpPins(d, cpu_pins), oob)}})

\* _vg5000_tick after z80_tick: cpu_pins are the pins z80_tick returned, with the
\* data bus as the memory access left it
_vg5000_tick(s, v, cpu_pins, oob, columns) ==
    SysTickDecoded(s, v, cpu_pins, _vg5000_7807_decoder(cpu_pins, v.pins, s.service_bus),
                   oob, columns)

(***************************************************************************)
(* SpecTape: the recorder under inserts, ejects and runs of ticks          *)
(***************************************************************************)
\* Number of runs of ticks in a behaviour
MaxRuns == 4

\* Number of tape insertions in a behaviour
MaxInserts == 2

\* Lengths of the runs of ticks with unchanged pins: a single tick, a run that
\* makes a short pulse, a run that makes a long pulse
TapeRunLens == {1, 700, 1600}

\* Service bus values: idle, tape write selected, tape read selected
TapeServiceBus == {7, 3, 5}

\* CPU data bytes: bit 0 data, bit 1 motor
TapeData == {0, 1, 2, 3}

RECURSIVE Repeat(_, _)
Repeat(b, n) == IF n = 0 THEN <<>> ELSE <<b>> \o Repeat(b, n - 1)

Le16(v) == <<v % 256, v \div 256>>

\* A tape image header: bytes 0..31 of the tape image format
TapeHeader(info) ==
    Repeat(211, 10) \o <<info.format>> \o SubSeq(info.name, 1, 6) \o <<info.version>>
        \o SubSeq(info.start_line, 1, 5) \o <<info.protection>> \o Le16(info.check_pos)
        \o Le16(info.start_adr) \o Le16(info.data_length) \o Le16(info.checksum)

\* header, second preamble, payload, trailing marker
TapeImage(info, payload) ==
    TapeHeader(info) \o Repeat(214, 10) \o payload \o Repeat(214, 10)

InfoA ==
    [format |-> 32, name |-> <<72, 69, 76, 76, 79, 33, 0>>, version |-> 1,
     start_line |-> <<49, 48, 32, 32, 32, 0>>, protection |-> 0, check_pos |-> 4660,
     start_adr |-> 18944, data_length |-> 2, checksum |-> 515]

InfoB ==
    [format |-> 77, name |-> <<66, 0, 0, 0, 0, 0, 0>>, version |-> 2,
     start_line |-> <<0, 0, 0, 0, 0, 0>>, protection |-> 255, check_pos |-> 0,
     start_adr |-> 65535, data_length |-> 300, checksum |-> 1]

ImageA == TapeImage(InfoA, <<7, 9>>)

\* The images the inserts draw from: a complete image, the same image cut to the
\* smallest accepted size and one byte below, a header alone, less than a header,
\* a bad first preamble, a bad second preamble, a declared length beyond the image,
\* an empty image
TapeImages ==
    {ImageA,
     SubSeq(ImageA, 1, 44),
     SubSeq(ImageA, 1, 43),
     SubSeq(ImageA, 1, 32),
     SubSeq(ImageA, 1, 31),
     [ImageA EXCEPT ![6] = 0],
     [ImageA EXCEPT ![36] = 0],
     TapeImage(InfoB, <<1, 2, 3>>),
     <<>>}

TapeInit ==
    /\ recorder = tape_recorder_init
    /\ tape_op = [op |-> "init", ret |-> TRUE, runs |-> 0, inserts |-> 0]
    /\ tc = <<>>
    /\ vdp = <<>>
    /\ vdp_obs = <<>>
    /\ dec = <<>>
    /\ sys = <<>>

TapeInsert ==
    /\ tape_op.inserts < MaxInserts
    /\ \E img \in TapeImages :
          LET r == tape_recorder_insert_tape(recorder, img)
          IN  /\ recorder' = r.recorder
              /\ tape_op' = [tape_op EXCEPT !.op = "insert", !.ret = r.success,
                                            !.inserts = tape_op.inserts + 1]
    /\ UNCHANGED <<tc, vdp, vdp_obs, dec, sys>>

TapeEject ==
    /\ recorder' = tape_recorder_eject_tape(recorder)
    /\ tape_op' = [tape_op EXCEPT !.op = "eject", !.ret = TRUE]
    /\ UNCHANGED <<tc, vdp, vdp_obs, dec, sys>>

TapeTick ==
    /\ tape_op.runs < MaxRuns
    /\ \E sb \in TapeServiceBus, data \in TapeData, n \in TapeRunLens :
          recorder' = tape_recorder_tick_n(recorder, sb, data, n)
    /\ tape_op' = [tape_op EXCEPT !.op = "tick", !.ret = TRUE, !.runs = tape_op.runs + 1]
    /\ UNCHANGED <<tc, vdp, vdp_obs, dec, sys>>

TapeNext == TapeInsert \/ TapeEject \/ TapeTick

SpecTape == TapeInit /\ [][TapeNext]_vars

\* A third and later call of tape_recorder_tick with the same arguments only counts
\* a tick while the motor runs on a non-empty tape, and changes nothing otherwise
SteadyTickLemma ==
    \A sb \in TapeServiceBus, data \in TapeData :
        LET r2 == tape_recorder_tick(tape_recorder_tick(recorder, sb, data), sb, data)
        IN  tape_recorder_tick(r2, sb, data) =
                IF r2.motor_on /\ r2.tape.size > 0
                THEN [r2 EXCEPT !.tick_counter = U16(r2.tick_counter + 1)]
                ELSE r2

\* C1 (as stated): when tape_recorder_insert_tape returns false, the tape image
\* (size and bytes) and the parsed header metadata are what they were before the call.
C1_FailedInsertKeepsTape ==
    [][(tape_op'.op = "insert" /\ ~tape_op'.ret)
        => (recorder'.tape = recorder.tape /\ recorder'.tape_info = recorder.tape_info)]_vars

\* C10 (as stated): after tape_recorder_insert_tape (success or failure) and after
\* tape_recorder_eject_tape the codec state is TAPE_INITIAL_SYNCHRO.
C10_InsertEjectResetCodec ==
    tape_op.op \in {"insert", "eject"} => recorder.tape_codec.state = "TAPE_INITIAL_SYNCHRO"

\* C16 (as stated): a run of ticks changes the codec (state, buffered pulse count and
\* samples, partial byte, bit counter, decoded byte) only when its first tick changes
\* the level of the write-data bit while the tape write port is selected and the
\* motor is on.
C16_CodecChangesOnlyOnWriteEdge ==
    [][(tape_op'.op = "tick" /\ recorder'.tape_codec # recorder.tape_codec)
        => (recorder'.data_value # recorder.data_value /\ recorder'.motor_on)]_vars

(***************************************************************************)
(* SpecCodec: the recorder fed with pulses on the write-data line, the motor *)
(* running and the tape write port selected                                  *)
(***************************************************************************)
\* Pulses of one behaviour that do not follow the byte encoding
MaxJunk == 2

\* Lengths of the runs of ticks between two toggles: a short and a long pulse
CodecRunLens == {700, 1600}

\* The service bus with only the tape write port selected
CodecWriteBus == 7 - Shl(1, SERVICE_BUS_PIN_WK7)

\* The pulses fed so far, read as the encoding of one byte: "start" when the codec
\* awaits the initial synchro with an empty buffer, "sync" after one long pulse,
\* "bits" after the second one (k bits fed, v their value with the first bit as
\* bit 0, n pulses of the next bit fed, of the given kind), "end" after the first
\* long pulse that follows the eight bits, "done" after the second one, "off" when
\* the pulses fed are not such an encoding
FeedZero == [phase |-> "off", k |-> 0, v |-> 0, n |-> 0, kind |-> "none"]

FeedStart == [FeedZero EXCEPT !.phase = "start"]

FeedStep(m, p) ==
    LET long == _is_long_tick(p)
        short == _is_short_tick(p)
    IN  CASE m.phase = "start" ->
                IF long THEN [FeedZero EXCEPT !.phase = "sync"] ELSE FeedZero
          [] m.phase = "sync" ->
                IF long THEN [FeedZero EXCEPT !.phase = "bits"] ELSE FeedZero
          [] m.phase = "bits" /\ m.k = 8 ->
                IF long THEN [m EXCEPT !.phase = "end"] ELSE FeedZero
          [] m.phase = "bits" /\ m.k < 8 /\ m.n = 0 ->
                IF long THEN [m EXCEPT !.n = 1, !.kind = "long"]
                ELSE IF short THEN [m EXCEPT !.n = 1, !.kind = "short"]
                ELSE FeedZero
          [] m.phase = "bits" /\ m.k < 8 /\ m.kind = "long" ->
                IF long THEN [m EXCEPT !.k = m.k + 1, !.n = 0, !.kind = "none"]
                ELSE FeedZero
          [] m.phase = "bits" /\ m.k < 8 /\ m.kind = "short" ->
                IF ~short THEN FeedZero
                ELSE IF m.n < 3 THEN [m EXCEPT !.n = m.n + 1]
                ELSE [m EXCEPT !.k = m.k + 1, !.v = m.v + Shl(1, m.k), !.n = 0,
                               !.kind = "none"]
          [] m.phase = "end" ->
                IF long THEN [m EXCEPT !.phase = "done"] ELSE FeedZero
          [] OTHER -> FeedZero

\* The codec awaits the initial synchro and holds no sample
CodecAwaitsEmpty(rec) ==
    rec.tape_codec.state = "TAPE_INITIAL_SYNCHRO" /\ rec.tape_codec.pos = 0

CodecInit ==
    /\ recorder = tape_recorder_init
    /\ tape_op = [op |-> "init", pulse |-> 0, feed |-> FeedStart, junk |-> 0]
    /\ tc = <<>>
    /\ vdp = <<>>
    /\ vdp_obs = <<>>
    /\ dec = <<>>
    /\ sys = <<>>

\* The CPU toggles the write-data bit with the motor bit set and holds the pins for
\* n ticks: the first tick records the pulse that ends with the toggle
CodecToggle ==
    /\ \E n \in CodecRunLens :
          LET data == 2 + (1 - recorder.data_value)
              pulse == U16(recorder.tick_counter + 1)
              fed == FeedStep(tape_op.feed, pulse)
              junk == IF fed.phase = "off" THEN tape_op.junk + 1 ELSE tape_op.junk
          IN  /\ junk <= MaxJunk
              /\ \E r \in {tape_recorder_tick_n(recorder, CodecWriteBus, data, n)} :
                    /\ recorder' = r
                    /\ tape_op' = [op |-> "toggle", pulse |-> pulse,
                                   feed |-> IF fed.phase = "off" /\ CodecAwaitsEmpty(r)
                                            THEN FeedStart ELSE fed,
                                   junk |-> junk]
    /\ UNCHANGED <<tc, vdp, vdp_obs, dec, sys>>

CodecNext == CodecToggle

SpecCodec == CodecInit /\ [][CodecNext]_vars

\* C12: when the pulses fed from the awaiting-initial-synchro state with an empty
\* buffer are two long pulses, then for each of eight bits two long pulses (0) or
\* four short pulses (1), then two long pulses, the codec reports the byte whose
\* bit i is the i-th bit fed, and is left decoding header bits with a bit counter of
\* 0 and an empty buffer.
C12_ByteDecoded ==
    tape_op.feed.phase = "done"
        => /\ recorder.tape_codec.valid_byte = tape_op.feed.v
           /\ recorder.tape_codec.state = "TAPE_HEADER_DATA"
           /\ recorder.tape_codec.bit_count = 0
           /\ recorder.tape_codec.pos = 0

C12_Witness ==
    /\ tape_op.feed.phase = "done"
    /\ tape_op.feed.v = 165
    /\ recorder.tape_codec.valid_byte = 165

\* C11 (as stated): from the awaiting-initial-synchro state a pulse either keeps the
\* codec waiting or, exactly when it completes two consecutive long pulses, moves it
\* to header-bit decoding with the bit counter and the partial byte at 0 and both
\* samples removed; no other state is reached from there.
C11_InitialSynchroOnlyToHeader ==
    [][(recorder.tape_codec.state = "TAPE_INITIAL_SYNCHRO" /\ tape_op'.op = "toggle")
        => LET codec == recorder.tape_codec
               found == /\ codec.pos = 1
                        /\ _is_long_tick(codec.ticks_buf[0])
                        /\ _is_long_tick(tape_op'.pulse)
           IN  IF found
               THEN /\ recorder'.tape_codec.state = "TAPE_HEADER_DATA"
                    /\ recorder'.tape_codec.bit_count = 0
                    /\ recorder'.tape_codec.current_byte = 0
                    /\ recorder'.tape_codec.pos = 0
               ELSE recorder'.tape_codec.state = "TAPE_INITIAL_SYNCHRO"]_vars

(***************************************************************************)
(* SpecDrain: the recorder driven into a decode error, then fed with toggles, *)
(* a run of ticks with arbitrary pins and a tape operation                    *)
(***************************************************************************)
\* Toggles fed before the decode error
MaxHeaderPulses == 7

\* Toggles fed to a codec in the finished state before the tape operation
MaxFinished == 2

\* Toggles fed after the tape operation
MaxAfterOp == 2

\* Lengths of the run of ticks with arbitrary pins
DrainIdleLens == {1, 700}

\* tape_recorder_tick takes its "Tape Writing" block on a change of the data value
TapeEdgeTaken(rec, service_bus, data) ==
    LET write_k7 == BitAnd(service_bus, Shl(1, SERVICE_BUS_PIN_WK7)) = 0
        read_k7 == BitAnd(service_bus, Shl(1, SERVICE_BUS_PIN_RK7)) = 0
        motor_on == IF write_k7 \/ read_k7 THEN BitAnd(data, 2) # 0 ELSE rec.motor_on
    IN  /\ motor_on
        /\ rec.tape.size > 0
        /\ write_k7
        /\ BitAnd(data, 1) # rec.previous_data_value

CodecInError(rec) == rec.tape_codec.state \in {"TAPE_ERROR", "TAPE_FINISHED"}

\* What the environment has done: the last operation with its pins, the pulse a
\* tick ended and whether it took the edge block, and the counters the bounds are
\* on: toggles before the error, toggles in the finished state, runs with arbitrary
\* pins, tape operations, toggles after the tape operation; errs counts the edges
\* taken since the codec entered the error state, longs the long pulses fed since
\* the tape operation while no other pulse has been fed since
DrainOpZero ==
    [op |-> "init", sb |-> 7, data |-> 0, pulse |-> 0, edge |-> FALSE,
     pulses |-> 0, fin |-> 0, idle |-> 0, ops |-> 0, after |-> 0, errs |-> 0, longs |-> 0]

DrainInit ==
    /\ recorder = tape_recorder_init
    /\ tape_op = DrainOpZero
    /\ tc = <<>>
    /\ vdp = <<>>
    /\ vdp_obs = <<>>
    /\ dec = <<>>
    /\ sys = <<>>

\* errs after a run of ticks from rec to r whose first tick took the edge block or not:
\* the edges the codec has taken in the error state
DrainErrs(rec, r, edge) ==
    IF rec.tape_codec.state = "TAPE_ERROR" /\ edge THEN tape_op.errs + 1
    ELSE IF CodecInError(rec) THEN tape_op.errs
    ELSE 0

\* The CPU toggles the write-data bit with the motor bit set and holds the pins for
\* n ticks
DrainToggle ==
    /\ (tape_op.ops = 0 /\ ~CodecInError(recorder)) => tape_op.pulses < MaxHeaderPulses
    /\ (tape_op.ops = 0 /\ recorder.tape_codec.state = "TAPE_FINISHED")
          => tape_op.fin < MaxFinished
    /\ tape_op.ops > 0 => tape_op.after < MaxAfterOp
    /\ \E n \in CodecRunLens :
          LET data == 2 + (1 - recorder.data_value)
              pulse == U16(recorder.tick_counter + 1)
              edge == TapeEdgeTaken(recorder, CodecWriteBus, data)
          IN  \E r \in {tape_recorder_tick_n(recorder, CodecWriteBus, data, n)} :
                 /\ recorder' = r
                 /\ tape_op' =
                      [tape_op EXCEPT
                         !.op = "toggle", !.sb = CodecWriteBus, !.data = data,
                         !.pulse = pulse, !.edge = edge,
                         !.pulses = IF tape_op.ops = 0 /\ ~CodecInError(recorder)
                                    THEN tape_op.pulses + 1 ELSE tape_op.pulses,
                         !.fin = IF tape_op.ops = 0
                                    /\ recorder.tape_codec.state = "TAPE_FINISHED"
                                 THEN tape_op.fin + 1 ELSE tape_op.fin,
                         !.after = IF tape_op.ops > 0 THEN tape_op.after + 1 ELSE 0,
                         !.errs = DrainErrs(recorder, r, edge),
                         !.longs = IF tape_op.ops > 0 /\ edge /\ _is_long_tick(pulse)
                                      /\ tape_op.longs = tape_op.after
                                   THEN tape_op.longs + 1 ELSE tape_op.longs]
    /\ UNCHANGED <<tc, vdp, vdp_obs, dec, sys>>

\* After a decode error, once: a run of n ticks with any service bus and data byte
DrainIdle ==
    /\ CodecInError(recorder)
    /\ tape_op.ops = 0
    /\ tape_op.idle = 0
    /\ \E sb \in TapeServiceBus, data \in TapeData, n \in DrainIdleLens :
          LET edge == TapeEdgeTaken(recorder, sb, data)
          IN  \E r \in {tape_recorder_tick_n(recorder, sb, data, n)} :
                 /\ recorder' = r
                 /\ tape_op' = [tape_op EXCEPT
                                  !.op = "idle", !.sb = sb, !.data = data,
                                  !.pulse = U16(recorder.tick_counter + 1),
                                  !.edge = edge,
                                  !.idle = 1,
                                  !.errs = DrainErrs(recorder, r, edge)]
    /\ UNCHANGED <<tc, vdp, vdp_obs, dec, sys>>

\* After a decode error, once: the tape is ejected
DrainEject ==
    /\ CodecInError(recorder)
    /\ tape_op.ops = 0
    /\ recorder' = tape_recorder_eject_tape(recorder)
    /\ tape_op' = [tape_op EXCEPT !.op = "eject", !.edge = FALSE, !.ops = 1, !.errs = 0]
    /\ UNCHANGED <<tc, vdp, vdp_obs, dec, sys>>

\* After a decode error, once: a new tape is inserted
DrainInsert ==
    /\ CodecInError(recorder)
    /\ tape_op.ops = 0
    /\ recorder' = tape_recorder_insert_tape(recorder, ImageA).recorder
    /\ tape_op' = [tape_op EXCEPT !.op = "insert", !.edge = FALSE, !.ops = 1]
    /\ UNCHANGED <<tc, vdp, vdp_obs, dec, sys>>

DrainNext == DrainToggle \/ DrainIdle \/ DrainEject \/ DrainInsert

SpecDrain == DrainInit /\ [][DrainNext]_vars

\* C13 (as stated): after a tape operation that follows a decode error, two
\* consecutive long pulses fed with the motor on leave the codec decoding header bits.
C13_ResumesAfterTapeOperation ==
    (tape_op.ops > 0 /\ tape_op.op = "toggle" /\ tape_op.after = 2 /\ tape_op.longs = 2)
        => recorder.tape_codec.state = "TAPE_HEADER_DATA"

MaxTapeOps == 2

ImageB == TapeImage(InfoB, Repeat(5, 300))

\* An image cut to its first n bytes
Cut(img, n) == SubSeq(img, 1, n)

\* The sizes an image with a payload of len bytes is cut to: all of it, one byte
\* short of the trailing marker, the payload without the marker, one byte less,
\* the header and the second preamble, one byte less, the header, one byte less
CutSizes(len) == {52 + len, 51 + len, 42 + len, 41 + len, 42, 41, 32, 31}

\* The images inserted: two images cut to these sizes, the first of them with each
\* byte of the two preambles replaced in turn, and the empty image
InsertImages ==
    {Cut(ImageA, n) : n \in CutSizes(2)}
        \cup {Cut(ImageB, n) : n \in CutSizes(300)}
        \cup {[ImageA EXCEPT ![i + 1] = 214] : i \in 0 .. 9}
        \cup {[ImageA EXCEPT ![i + 1] = 211] : i \in 32 .. 41}
        \cup {<<>>}

InsertInit ==
    /\ recorder = tape_recorder_init
    /\ tape_op = [op |-> "init", ret |-> TRUE, img |-> <<>>, ops |-> 0]
    /\ tc = <<>>
    /\ vdp = <<>>
    /\ vdp_obs = <<>>
    /\ dec = <<>>
    /\ sys = <<>>

InsertTape ==
    /\ tape_op.op # "trap"
    /\ tape_op.ops < MaxTapeOps
    /\ \E img \in InsertImages :
          LET r == tape_recorder_insert_tape(recorder, img)
          IN  /\ recorder' = r.recorder
              /\ tape_op' = [op |-> "insert", ret |-> r.success, img |-> img,
                             ops |-> tape_op.ops + 1]
    /\ UNCHANGED <<tc, vdp, vdp_obs, dec, sys>>

InsertEject ==
    /\ tape_op.op # "trap"
    /\ tape_op.ops < MaxTapeOps
    /\ recorder' = tape_recorder_eject_tape(recorder)
    /\ tape_op' = [op |-> "eject", ret |-> TRUE, img |-> <<>>, ops |-> tape_op.ops + 1]
    /\ UNCHANGED <<tc, vdp, vdp_obs, dec, sys>>

\* An image one byte larger than the tape buffer: ImageA, zeros, and 1 in its last
\* two bytes
OversizeImage ==
    [i \in 1 .. VG5000_MAX_TAPE_DATA_SIZE + 1 |->
        IF i <= Len(ImageA) THEN ImageA[i]
        ELSE IF i >= VG5000_MAX_TAPE_DATA_SIZE THEN 1 ELSE 0]

\* What a build can make of the memcpy of more than sizeof(tape.data) bytes: a
\* checked memcpy ends the program, a plain one spills into the field behind the
\* buffer
OverflowOutcomes == {"trap", "spill"}

\* tape_recorder_insert_tape with an image larger than VG5000_MAX_TAPE_DATA_SIZE
\* where memcpy spills: the bytes past the buffer land in tape_info, which follows
\* tape in tape_recorder_t, and the size is stored as passed
tape_recorder_insert_tape_spill(rec, k7_file_data) ==
    LET r1 == [rec EXCEPT !.tape = [size |-> Len(k7_file_data),
                                    data |-> StripZeros(SubSeq(k7_file_data, 1,
                                                 VG5000_MAX_TAPE_DATA_SIZE))],
                          !.tape_info.format =
                              k7_file_data[VG5000_MAX_TAPE_DATA_SIZE + 1],
                          !.tape_index = 0,
                          !.motor_on = FALSE]
        info == _read_tape_information(r1)
    IN  [recorder |-> [r1 EXCEPT !.tape_info = info.tape_info], success |-> info.success]

\* The caller passes an image larger than the tape buffer
InsertOversize ==
    /\ tape_op.op # "trap"
    /\ tape_op.ops < MaxTapeOps
    /\ \E outcome \in OverflowOutcomes :
          IF outcome = "trap"
          THEN /\ recorder' = recorder
               /\ tape_op' = [op |-> "trap", ret |-> FALSE, img |-> <<>>,
                              ops |-> tape_op.ops + 1]
          ELSE LET r == tape_recorder_insert_tape_spill(recorder, OversizeImage)
               IN  /\ recorder' = r.recorder
                   /\ tape_op' = [op |-> "oversize", ret |-> r.success, img |-> <<>>,
                                  ops |-> tape_op.ops + 1]
    /\ UNCHANGED <<tc, vdp, vdp_obs, dec, sys>>

InsertNext == InsertTape \/ InsertEject \/ InsertOversize

SpecInsert == InsertInit /\ [][InsertNext]_vars

\* Byte i of an image, i counted from 0
ImageByte(img, i) == img[i + 1]

\* The 16-bit little-endian value at bytes i and i + 1 of an image
ImageLe16(img, i) == ImageByte(img, i) + 256 * ImageByte(img, i + 1)

\* C17: tape_recorder_insert_tape returns true exactly when the image has at least
\* 32 bytes, bytes 0..9 are all 0xD3, the size is at least 32 + data length + 10
\* with the data length read little-endian from bytes 28..29, and bytes 32..41 are
\* all 0xD6; so an image of exactly that size is accepted and the same image
\* without its last byte is not.
C17_InsertAcceptsExactly ==
    tape_op.op = "insert"
        => LET img == tape_op.img
           IN  tape_op.ret <=>
                   /\ Len(img) >= 32
                   /\ \A i \in 0 .. 9 : ImageByte(img, i) = 211
                   /\ Len(img) >= 32 + ImageLe16(img, 28) + 10
                   /\ \A i \in 32 .. 41 : ImageByte(img, i) = 214

\* an image one byte short of the required size is refused although the bytes of
\* the tape inserted before it are still in the buffer
C17_Witness ==
    /\ tape_op.op = "insert"
    /\ tape_op.img = Cut(ImageA, 43)
    /\ ~tape_op.ret
    /\ DataAt(recorder.tape.data, 43) # 0

\* C18 (as stated): when the insert succeeds, the image holds at least data length
\* + 10 bytes after the second preamble, which ends at byte 41.
C18_PayloadAndMarkerWithinImage ==
    (tape_op.op = "insert" /\ tape_op.ret)
        => Len(tape_op.img) - 42 >= recorder.tape_info.data_length + 10

\* C19: when the insert succeeds, tape_info holds the header fields of the image:
\* format byte 10, name bytes 11..16, version byte 17, start line bytes 18..22,
\* protection byte 23, and check position, start address, data length and checksum
\* the little-endian 16-bit values at bytes 24, 26, 28 and 30.
C19_InfoEqualsHeaderFields ==
    (tape_op.op = "insert" /\ tape_op.ret)
        => LET img == tape_op.img
               info == recorder.tape_info
           IN  /\ info.format = ImageByte(img, 10)
               /\ \A i \in 1 .. 6 : info.name[i] = ImageByte(img, 10 + i)
               /\ info.version = ImageByte(img, 17)
               /\ \A i \in 1 .. 5 : info.start_line[i] = ImageByte(img, 17 + i)
               /\ info.protection = ImageByte(img, 23)
               /\ info.check_pos = ImageLe16(img, 24)
               /\ info.start_adr = ImageLe16(img, 26)
               /\ info.data_length = ImageLe16(img, 28)
               /\ info.checksum = ImageLe16(img, 30)

\* the second accepted image of a behaviour replaces the fields of the first
C19_Witness ==
    /\ tape_op.op = "insert"
    /\ tape_op.ret
    /\ tape_op.ops = 2
    /\ tape_op.img = Cut(ImageB, 342)
    /\ recorder.tape_info.data_length = 300
    /\ recorder.tape_info.start_adr = 65535

\* C34 (as stated): the stored tape size is at most VG5000_MAX_TAPE_DATA_SIZE,
\* whatever size the caller of tape_recorder_insert_tape passes.
C34_SizeWithinTape == recorder.tape.size <= VG5000_MAX_TAPE_DATA_SIZE

(***************************************************************************)
(* SpecVdp: the EF9345 alone, ticked with the control pins the 7807 decoder  *)
(* can drive and bus bytes                                                   *)
(***************************************************************************)
\* ticks and resets of one behaviour
MaxVdpTicks == 7

\* Bus bytes: the register addresses 0x21 (R1), 0x28 (R0, execute) and 0xFF (R7,
\* execute), the commands 0x81, 0x83, 0x87 (IND write of TGS, PAT, ROR); each is
\* also a data byte
VdpBytes == {33, 40, 129, 131, 135, 255}

\* The levels of AS, DS and R/W the decoder drives (_vg5000_7807_decoder): none
\* selected, and output 0, 6 or 2 selected
VdpControls ==
    {[as |-> 0, ds |-> 1, rw |-> 1], [as |-> 1, ds |-> 1, rw |-> 1],
     [as |-> 0, ds |-> 0, rw |-> 1], [as |-> 0, ds |-> 1, rw |-> 0]}

\* The outcomes of reading direct_regs[reg_num] with reg_num in 8..15: the byte that
\* follows the array in the structure (the indirect register reg_num - 8), or any
\* other byte
OobOutcomes(v, vdp_pins) ==
    LET l_address == IF v.pins.as = 1 /\ vdp_pins.as = 0 THEN vdp_pins.ad ELSE v.l_address
        reg_num == BitAnd(l_address, 15)
    IN  IF reg_num >= 8 THEN {v.indirect_regs[reg_num - 8], 255} ELSE {0}

VdpObsZero ==
    [ticks |-> 0, op |-> "init",
     written |-> [i \in 0 .. 7 |-> -1],
     latched |-> FALSE, read |-> FALSE, wrote |-> FALSE, executed |-> FALSE]

VdpInit ==
    /\ vdp = ef9345_init
    /\ vdp_obs = VdpObsZero
    /\ tc = <<>>
    /\ recorder = <<>>
    /\ tape_op = <<>>
    /\ dec = <<>>
    /\ sys = <<>>

\* The bytes last stored in the direct registers over the bus: a bus write records
\* its byte, a command that changes a register forgets it
WrittenAfter(t, v) ==
    [i \in 0 .. 7 |->
        IF t.wrote /\ i = BitAnd(t.vdp.l_address, 7) THEN t.vdp.direct_regs[i]
        ELSE IF t.executed /\ t.vdp.direct_regs[i] # v.direct_regs[i] THEN -1
        ELSE vdp_obs.written[i]]

VdpTick ==
    /\ vdp_obs.ticks < MaxVdpTicks
    /\ \E c \in VdpControls, ad \in VdpBytes :
        LET vdp_pins == [vdp.pins EXCEPT !.as = c.as, !.ds = c.ds, !.rw = c.rw, !.ad = ad]
        IN  \E oob \in OobOutcomes(vdp, vdp_pins) :
                \E t \in {ef9345_tick(vdp, vdp_pins, oob)} :
                    /\ vdp' = t.vdp
                    /\ vdp_obs' = [ticks |-> vdp_obs.ticks + 1, op |-> "tick",
                                   written |-> WrittenAfter(t, vdp),
                                   latched |-> t.latched, read |-> t.read,
                                   wrote |-> t.wrote, executed |-> t.executed]
    /\ UNCHANGED <<tc, recorder, tape_op, dec, sys>>

VdpReset ==
    /\ vdp_obs.ticks < MaxVdpTicks
    /\ vdp_obs.op = "tick"
    /\ vdp' = ef9345_reset
    /\ vdp_obs' = [VdpObsZero EXCEPT !.ticks = vdp_obs.ticks + 1, !.op = "reset"]
    /\ UNCHANGED <<tc, recorder, tape_op, dec, sys>>

VdpNext == VdpTick \/ VdpReset

SpecVdp == VdpInit /\ [][VdpNext]_vars

\* the byte at bit position b of a
Bit(a, b) == Shr(a, b) % 2

\* C5: a bus read of a direct register n in 1..7 returns the byte last written to it
\* over the bus, whatever latched address selects register n, when no command changed
\* the register since
C5_ReadReturnsWritten ==
    LET n == BitAnd(vdp.l_address, 7)
    IN  (vdp_obs.op = "tick" /\ vdp_obs.read /\ n # 0 /\ vdp_obs.written[n] # -1)
            => vdp.pins.ad = vdp_obs.written[n]

\* C8: after an IND write, lines_per_frame is 312 when the lines-per-frame bit of TGS
\* is set and 262 when it is clear, for some bit of TGS
C8_LinesPerFrameFollowsTgs ==
    (vdp_obs.op = "tick" /\ vdp_obs.executed /\ BitAnd(vdp.direct_regs[0], 248) = 128)
        => \E b \in 0 .. 7 :
              vdp.lines_per_frame =
                  IF Bit(vdp.indirect_regs[EF9345_REG_INDIRECT_TGS], b) = 1 THEN 312 ELSE 262

\* C9: the cached configuration (interlaced, char_code, block_origin, origin_row_yor)
\* always equals the value derived from the indirect registers TGS, PAT and ROR
C9_CacheMatchesIndirect ==
    /\ vdp.interlaced = (vdp.indirect_regs[EF9345_REG_INDIRECT_TGS] % 2 = 1)
    /\ vdp.char_code = ((vdp.indirect_regs[EF9345_REG_INDIRECT_TGS] \div 64) % 4)
                       + (4 * ((vdp.indirect_regs[EF9345_REG_INDIRECT_PAT] \div 128) % 2))
    /\ vdp.block_origin = 2 * (vdp.indirect_regs[EF9345_REG_INDIRECT_ROR] \div 32)
    /\ vdp.origin_row_yor = vdp.indirect_regs[EF9345_REG_INDIRECT_ROR] % 32

\* an IND write has just stored 0xFF in ROR, and the cache follows it
C9_Witness ==
    /\ vdp_obs.op = "tick" /\ vdp_obs.executed
    /\ vdp.direct_regs[0] = 135
    /\ vdp.indirect_regs[EF9345_REG_INDIRECT_ROR] = 255
    /\ vdp.block_origin = 14 /\ vdp.origin_row_yor = 31

\* C25: l_address, l_ds and execution_flag change only in a tick whose AS pin is low
\* after the tick before left it high; in that tick they become the byte on AD0-AD7,
\* the level of the DS pin and bit 3 of that byte; every other tick leaves the three
\* unchanged.
C25_LatchOnlyOnAsFallingEdge ==
    [][vdp_obs'.op = "tick"
          => IF vdp.pins.as = 1 /\ vdp'.pins.as = 0
             THEN /\ vdp'.l_address = vdp'.pins.ad
                  /\ vdp'.l_ds = vdp'.pins.ds
                  /\ vdp'.execution_flag = (Bit(vdp'.pins.ad, 3) = 1)
             ELSE /\ vdp'.l_address = vdp.l_address
                  /\ vdp'.l_ds = vdp.l_ds
                  /\ vdp'.execution_flag = vdp.execution_flag]_vars

\* the address 0x21 has been latched over the address 0xFF latched before it: the
\* execute flag is clear again
C25_Witness ==
    /\ vdp_obs.op = "tick" /\ vdp_obs.latched
    /\ vdp.l_address = 33 /\ vdp.l_ds = 1 /\ ~vdp.execution_flag
    /\ vdp.direct_regs[7] = 129

\* C36 (as stated): on every read cycle the index into the direct register array is
\* within 0..7, whatever address byte is latched, and a read of register 0 drives
\* 0x00.
C36_ReadIndexWithinDirectRegs ==
    vdp_obs.read
        => /\ BitAnd(ReadRegNum(vdp), 7) # 0 => ReadRegNum(vdp) \in 0 .. 7
           /\ BitAnd(ReadRegNum(vdp), 7) = 0 => vdp.pins.ad = 0

(***************************************************************************)
(* SpecBeam: the EF9345 ticked with an idle bus from init or reset through    *)
(* whole frames                                                              *)
(***************************************************************************)
\* What the beam has done: cols[x] counts the renders of column x in the current
\* line, stores holds the framebuffer offsets stored to by the last tick, rows holds
\* the rows _ef9345_load_char_row was called for in the current frame, in order
BeamObsZero ==
    [op |-> "init", cols |-> [x \in 0 .. 39 |-> 0], stores |-> <<>>, rows |-> <<>>]

BeamInit ==
    /\ vdp = ef9345_init
    /\ vdp_obs = BeamObsZero
    /\ tc = <<>>
    /\ recorder = <<>>
    /\ tape_op = <<>>
    /\ dec = <<>>
    /\ sys = <<>>

\* ef9345_tick with nothing selected on the bus: AS low, DS and RW high
BeamTick ==
    /\ LET vdp_pins == [vdp.pins EXCEPT !.as = 0, !.ds = 1, !.rw = 1, !.ad = 255]
       IN  \E oob \in OobOutcomes(vdp, vdp_pins) :
              \E t \in {ef9345_tick(vdp, vdp_pins, oob)} :
                 LET stores == BeamFbStores(vdp, t.vdp)
                     cols0 == IF t.vdp.line_tick = 0 THEN BeamObsZero.cols ELSE vdp_obs.cols
                     x == t.vdp.latest_rendered_column
                     rows0 == IF t.vdp.current_line = 0 /\ t.vdp.line_tick = 0
                              THEN <<>> ELSE vdp_obs.rows
                 IN  /\ vdp' = t.vdp
                     /\ vdp_obs' = [vdp_obs EXCEPT
                                      !.op = "tick",
                                      !.stores = stores,
                                      !.rows = IF t.vdp.latest_loaded_row_line
                                                    # vdp.latest_loaded_row_line
                                                  /\ t.vdp.latest_loaded_row_line < 25
                                               THEN Append(rows0, t.vdp.latest_loaded_row_line)
                                               ELSE rows0,
                                      !.cols = IF stores # <<>>
                                               THEN [cols0 EXCEPT ![x] = cols0[x] + 1]
                                               ELSE cols0]
    /\ UNCHANGED <<tc, recorder, tape_op, dec, sys>>

\* ef9345_reset at any tick
BeamReset ==
    /\ vdp_obs.op = "tick"
    /\ vdp' = ef9345_reset
    /\ vdp_obs' = [BeamObsZero EXCEPT !.op = "reset"]
    /\ UNCHANGED <<tc, recorder, tape_op, dec, sys>>

BeamNext == BeamTick \/ BeamReset

SpecBeam == BeamInit /\ [][BeamNext]_vars

\* C20 (as stated): in every frame from the first one after init or reset, each
\* column 0..39 of each active line is rendered exactly once, by eight stores at the
\* framebuffer offsets (line - first active line) * 320 + column * 8 + 0..7: no cell
\* is rendered twice, every store goes to the offsets of the cell under the beam,
\* and when the display time of an active line is over all 40 cells are rendered.
C20_EachCellRenderedOnce ==
    LET first_active_line == vdp.lines_per_frame - active_scan_lines
        active == vdp.current_line >= first_active_line
                      /\ vdp.current_line < vdp.lines_per_frame
        x == vdp.line_tick \div tick_for_1mus
    IN  /\ \A c \in 0 .. 39 : vdp_obs.cols[c] <= 1
        /\ vdp_obs.stores # <<>>
              => /\ active
                 /\ x < 40
                 /\ vdp_obs.stores =
                        [i \in 1 .. 8 |->
                            (vdp.current_line - first_active_line) * 320 + x * 8 + i - 1]
        /\ (active /\ vdp.line_tick >= 40 * tick_for_1mus)
              => \A c \in 0 .. 39 : vdp_obs.cols[c] = 1

\* C21: a tick stores to the framebuffer only when the beam is on one of the last
\* 250 lines of the frame and within the first 40 character cells of the line, only
\* at the eight offsets of the cell under the beam, all below 320 * 250; any other
\* tick stores nothing.
C21_StoresOnlyInsideWindow ==
    \A i \in 1 .. Len(vdp_obs.stores) :
        /\ vdp.current_line >= vdp.lines_per_frame - 250
        /\ vdp.current_line < vdp.lines_per_frame
        /\ vdp.line_tick < 40 * tick_for_1mus
        /\ vdp_obs.stores[i] >= (vdp.current_line - (vdp.lines_per_frame - 250)) * 320
                                    + (vdp.line_tick \div tick_for_1mus) * 8
        /\ vdp_obs.stores[i] <= (vdp.current_line - (vdp.lines_per_frame - 250)) * 320
                                    + (vdp.line_tick \div tick_for_1mus) * 8 + 7
        /\ vdp_obs.stores[i] < 320 * 250

\* the last cell of the frame is rendered
C21_Witness ==
    /\ Len(vdp_obs.stores) = 8
    /\ vdp_obs.stores[8] = 320 * 250 - 1
    /\ vdp.current_line = 261

C30_EachRowReloadedOnce ==
    LET rows == vdp_obs.rows
        row == (vdp.current_line - (vdp.lines_per_frame - active_scan_lines)) \div 10
    IN  /\ \A i, j \in 1 .. Len(rows) : rows[i] = rows[j] => i = j
        /\ vdp_obs.stores # <<>> => \E i \in 1 .. Len(rows) : rows[i] = row
        /\ (vdp.current_line = vdp.lines_per_frame - 1 /\ vdp.line_tick = tick_per_line - 1)
              => \A r \in 0 .. 24 : \E i \in 1 .. Len(rows) : rows[i] = r

(***************************************************************************)
(* SpecCmd: one command written to R0 with the execute bit over the bus,     *)
(* from every content of the pointer registers R4 to R7                      *)
(***************************************************************************)
\* The pointer registers the command starts from: every row of R6 with a few columns
\* of R7, and every column of R7 with a few rows of R6, with and without the upper
\* bits of R5, R6 and R7
CmdRegs ==
    {[r4 |-> 33, r5 |-> r5, r6 |-> r6, r7 |-> r7] :
        r5 \in {0, 167}, r6 \in (0 .. 31) \cup {168, 255}, r7 \in {0, 38, 39, 231}}
    \cup {[r4 |-> 33, r5 |-> r5, r6 |-> r6, r7 |-> r7] :
        r5 \in {0, 167}, r6 \in {8, 31}, r7 \in 0 .. 39}

\* before is the chip before the last tick, bus the chip after the bus transfer of
\* the last tick (before its beam update)
CmdInit ==
    /\ \E r \in CmdRegs :
          vdp = [ef9345_init EXCEPT !.direct_regs =
                    [i \in 0 .. 7 |->
                        CASE i = 1 -> 90 [] i = 4 -> r.r4 [] i = 5 -> r.r5
                          [] i = 6 -> r.r6 [] i = 7 -> r.r7 [] OTHER -> 0]]
    /\ vdp_obs = [op |-> "init", before |-> <<>>, bus |-> <<>>, executed |-> FALSE]
    /\ tc = <<>>
    /\ recorder = <<>>
    /\ tape_op = <<>>
    /\ dec = <<>>
    /\ sys = <<>>

\* The four ticks of the write of a command byte to R0 with execution: the address
\* 0x28 with AS high, AS back low (the address is latched), the command byte with
\* R/W low (R0 is stored), R/W back high (the command is dispatched)
CmdTick ==
    /\ vdp_obs.op # "dispatched"
    /\ \E ad \in IF vdp_obs.op = "latched" THEN 0 .. 255 ELSE {40} :
        LET vdp_pins == [vdp.pins EXCEPT
                            !.as = IF vdp_obs.op = "init" THEN 1 ELSE 0,
                            !.ds = 1,
                            !.rw = IF vdp_obs.op = "latched" THEN 0 ELSE 1,
                            !.ad = IF vdp_obs.op = "written" THEN vdp.pins.ad ELSE ad]
        IN  \E b \in {_ef9345_external_bus_transfer(vdp, vdp_pins, 0)} :
            \E t \in {ef9345_tick(vdp, vdp_pins, 0)} :
                /\ vdp' = t.vdp
                /\ vdp_obs' = [op |-> CASE vdp_obs.op = "init" -> "address"
                                        [] vdp_obs.op = "address" -> "latched"
                                        [] vdp_obs.op = "latched" -> "written"
                                        [] OTHER -> "dispatched",
                               before |-> vdp, bus |-> b.vdp, executed |-> t.executed]
    /\ UNCHANGED <<tc, recorder, tape_op, dec, sys>>

SpecCmd == CmdInit /\ [][CmdTick]_vars

\* the command just dispatched and its parameter
CmdCode == BitAnd(vdp.direct_regs[0], 240)

CmdParam == BitAnd(vdp.direct_regs[0], 15)

\* C22 (as stated): an OCT access through the auxiliary pointer with auto-increment
\* advances the column of R5 modulo 40 and leaves R6 and R7 unchanged; an OCT or KRG
\* access through the main pointer with auto-increment leaves R4 and R5 unchanged.
C22_AutoIncrementKeepsOtherPointer ==
    LET old == vdp_obs.before.direct_regs
        new == vdp.direct_regs
        auto_incr == BitAnd(CmdParam, 1) # 0
        is_aux == CmdCode = 48 /\ BitAnd(CmdParam, 4) # 0
        is_mp == (CmdCode = 48 /\ BitAnd(CmdParam, 4) = 0)
                    \/ (CmdCode = 0 /\ BitAnd(CmdParam, 6) = 2)
    IN  (vdp_obs.op = "dispatched" /\ vdp_obs.executed /\ auto_incr)
            => /\ is_aux => /\ BitAnd(new[5], 63) = (BitAnd(old[5], 63) + 1) % 40
                            /\ new[6] = old[6]
                            /\ new[7] = old[7]
               /\ is_mp => /\ new[4] = old[4]
                           /\ new[5] = old[5]

\* C23: an auto-increment of the main pointer steps the column of R7 from c to c + 1
\* for c in 0..38 and from 39 to 0, keeping bits 6-7 of R7; on the wrap the row of R6
\* is incremented by OCT and kept by KRG; a row increment (that carry, or INY) steps
\* the row from r to r + 1 for r in 0..30 and from 31 to 8, keeping bits 5-7 of R6.
C23_MainPointerIncrement ==
    LET old == vdp_obs.before.direct_regs
        new == vdp.direct_regs
        c == BitAnd(old[7], 63)
        r == BitAnd(old[6], 31)
        auto_incr == BitAnd(CmdParam, 1) # 0
        is_oct == CmdCode = 48 /\ BitAnd(CmdParam, 4) = 0 /\ auto_incr
        is_krg == CmdCode = 0 /\ BitAnd(CmdParam, 6) = 2 /\ auto_incr
        row_incremented == CmdCode = 176 \/ (is_oct /\ c = 39)
    IN  (vdp_obs.op = "dispatched" /\ vdp_obs.executed /\ c < 40)
            => /\ (is_oct \/ is_krg)
                    => /\ BitAnd(new[7], 63) = IF c = 39 THEN 0 ELSE c + 1
                       /\ BitAnd(new[7], 192) = BitAnd(old[7], 192)
               /\ (is_krg \/ (is_oct /\ c # 39)) => new[6] = old[6]
               /\ row_incremented
                    => /\ BitAnd(new[6], 31) = IF r = 31 THEN 8 ELSE r + 1
                       /\ BitAnd(new[6], 224) = BitAnd(old[6], 224)

\* OCT with auto-increment has wrapped column 39 of row 31: R7 0xE7 to 0xC0, R6 0xFF
\* to 0xE8
C23_Witness ==
    /\ vdp_obs.op = "dispatched" /\ vdp_obs.executed
    /\ vdp.direct_regs[0] = 49
    /\ vdp_obs.before.direct_regs[7] = 231 /\ vdp.direct_regs[7] = 192
    /\ vdp_obs.before.direct_regs[6] = 255 /\ vdp.direct_regs[6] = 232

\* C26: at the dispatch of a command written to R0 over the bus with the execute bit,
\* the assertion "Unknown command code" fires exactly when the high nibble of R0 is
\* 0xA or 0xC; it fires for none of the other fourteen command codes.
C26_UnknownCommandAsserts ==
    (vdp_obs.op = "dispatched" /\ vdp_obs.executed)
        => /\ vdp_obs.before.asserted = "none"
           /\ (vdp.asserted = "Unknown command code") <=> (CmdCode \in {160, 192})
           /\ (vdp.asserted = "none") <=> (CmdCode \notin {160, 192})

\* the byte 0xC5 written to R0 through address 0x28 is dispatched and asserts
C26_Witness ==
    /\ vdp_obs.op = "dispatched" /\ vdp_obs.executed
    /\ vdp.l_address = 40
    /\ vdp.direct_regs[0] = 197
    /\ vdp.asserted = "Unknown command code"

\* the unimplemented commands: KRF, CLF, CLG (code 0x00 with parameter bits 1-2 other
\* than 01), KRE, KRV, KRC, KRL, EXP, CMP, VSM/VRM/NOP, MVB, MVD, MVT
CmdUnimplemented ==
    \/ CmdCode = 0 /\ BitAnd(CmdParam, 6) \in {0, 4, 6}
    \/ CmdCode \in {16, 32, 64, 80, 96, 112, 144, 208, 224, 240}

\* C27: the dispatch of an unimplemented command leaves the whole chip unchanged:
\* direct and indirect registers, cached configuration, video RAM, raster counters.
C27_UnimplementedChangesNothing ==
    (vdp_obs.op = "dispatched" /\ vdp_obs.executed /\ CmdUnimplemented)
        => vdp_obs.bus = vdp_obs.before

\* KRF with the auto-increment bit has been dispatched with R1 = 0x5A at column 39 of
\* row 31, and nothing moved
C27_Witness ==
    /\ vdp_obs.op = "dispatched" /\ vdp_obs.executed
    /\ vdp.direct_regs[0] = 1
    /\ vdp.direct_regs[1] = 90 /\ vdp.direct_regs[6] = 255 /\ vdp.direct_regs[7] = 231
    /\ vdp.ram = <<>>

\* C37 (as stated): every video-RAM access of a KRG or OCT command, the second plane
\* of KRG at address + 0x0400 included, uses an address within the 8 KiB video RAM,
\* for every value of the pointer registers.
C37_AccessWithinVideoRam ==
    LET old == vdp_obs.before.direct_regs
        is_krg == CmdCode = 0 /\ BitAnd(CmdParam, 6) = 2
        is_oct == CmdCode = 48
        is_aux == BitAnd(CmdParam, 4) # 0
        address == IF is_oct /\ is_aux
                   THEN _ef9345_ap_to_physical_address(old[4], old[5], old[6])
                   ELSE _ef9345_mp_to_physical_address(old[6], old[7])
    IN  (vdp_obs.op = "dispatched" /\ vdp_obs.executed /\ (is_krg \/ is_oct))
            => /\ address \in 0 .. EF9345_RAM_SIZE - 1
               /\ is_krg => address + 1024 \in 0 .. EF9345_RAM_SIZE - 1

(***************************************************************************)
(* SpecSub: the EF9345 ticked as _vg5000_tick ticks it, three times on the   *)
(* pins of one system tick                                                   *)
(***************************************************************************)
\* system ticks of one behaviour
MaxSubTicks == 4

\* previous and pins are the pins the chip kept from the system tick before and the
\* pins of the last system tick; did[k] tells what sub-tick k of the last system
\* tick did
SubInit ==
    /\ vdp = ef9345_init
    /\ vdp_obs = [ticks |-> 0, previous |-> PinsZero, pins |-> PinsZero, did |-> <<>>]
    /\ tc = <<>>
    /\ recorder = <<>>
    /\ tape_op = <<>>
    /\ dec = <<>>
    /\ sys = <<>>

SubSysTick ==
    /\ vdp_obs.ticks < MaxSubTicks
    /\ \E c \in VdpControls, ad \in VdpBytes :
        LET vdp_pins == [vdp.pins EXCEPT !.as = c.as, !.ds = c.ds, !.rw = c.rw, !.ad = ad]
        IN  \E oob \in OobOutcomes(vdp, vdp_pins) :
                \E t \in {SysVdpSubTicks(vdp, vdp_pins, oob)} :
                    /\ vdp' = t[VDP_TICKS_PER_CPU_TICK].vdp
                    /\ vdp_obs' = [ticks |-> vdp_obs.ticks + 1,
                                   previous |-> vdp.pins,
                                   pins |-> vdp_pins,
                                   did |-> [k \in 1 .. VDP_TICKS_PER_CPU_TICK |->
                                              [latched |-> t[k].latched, read |-> t[k].read,
                                               wrote |-> t[k].wrote,
                                               executed |-> t[k].executed]]]
    /\ UNCHANGED <<tc, recorder, tape_op, dec, sys>>

SpecSub == SubInit /\ [][SubSysTick]_vars

\* how many sub-ticks of the last system tick did what
SubCount(what) ==
    Cardinality({k \in DOMAIN vdp_obs.did : vdp_obs.did[k][what]})

\* C24 (as stated): in the three sub-ticks of a system tick a command is dispatched
\* exactly once when R/W rose and the execute flag is set and never otherwise, a
\* direct register is stored exactly once when R/W fell, the bus is driven exactly
\* once when DS fell, and nothing is done by the second and third sub-ticks.
C24_EachEdgeActedOnce ==
    LET rw_rise == vdp_obs.previous.rw = 0 /\ vdp_obs.pins.rw = 1
        rw_fall == vdp_obs.previous.rw = 1 /\ vdp_obs.pins.rw = 0
        ds_fall == vdp_obs.previous.ds = 1 /\ vdp_obs.pins.ds = 0
    IN  vdp_obs.ticks > 0
            => /\ SubCount("executed") = IF rw_rise /\ vdp.execution_flag THEN 1 ELSE 0
               /\ SubCount("wrote") = IF rw_fall THEN 1 ELSE 0
               /\ SubCount("read") = IF ds_fall THEN 1 ELSE 0
               /\ \A k \in 2 .. VDP_TICKS_PER_CPU_TICK :
                     ~vdp_obs.did[k].executed /\ ~vdp_obs.did[k].wrote

\* C24 (amended): as above, with the store only when the address was latched with DS
\* high and has bit 5 set, and the bus driven only when the address was latched with
\* DS high.
C24_EachEdgeActedAtMostOnce ==
    LET rw_rise == vdp_obs.previous.rw = 0 /\ vdp_obs.pins.rw = 1
        rw_fall == vdp_obs.previous.rw = 1 /\ vdp_obs.pins.rw = 0
        ds_fall == vdp_obs.previous.ds = 1 /\ vdp_obs.pins.ds = 0
        is_store == vdp.l_ds # 0 /\ BitAnd(vdp.l_address, 32) = 32
    IN  vdp_obs.ticks > 0
            => /\ SubCount("executed") = IF rw_rise /\ vdp.execution_flag THEN 1 ELSE 0
               /\ SubCount("wrote") = IF rw_fall /\ is_store THEN 1 ELSE 0
               /\ SubCount("read") = IF ds_fall /\ vdp.l_ds # 0 THEN 1 ELSE 0
               /\ \A k \in 2 .. VDP_TICKS_PER_CPU_TICK :
                     /\ ~vdp_obs.did[k].executed /\ ~vdp_obs.did[k].wrote
                     /\ ~vdp_obs.did[k].read /\ ~vdp_obs.did[k].latched

\* the IND command 0x81 stored in R0 has been dispatched by the first sub-tick of the
\* system tick in which R/W rose, and by no other
C24_Witness ==
    /\ vdp_obs.ticks > 0
    /\ vdp_obs.previous.rw = 0 /\ vdp_obs.pins.rw = 1
    /\ vdp.l_address = 40 /\ vdp.direct_regs[0] = 129
    /\ vdp_obs.did[1].executed
    /\ SubCount("executed") = 1

(***************************************************************************)
(* SpecRow: the character-code mode set by IND writes of TGS and PAT over    *)
(* the bus, then the beam run to the first row load                          *)
(***************************************************************************)
\* the line at which the ticks of one behaviour stop
MaxRowLine == 23

\* The bus cycles of the CPU that set character code `code`: R1 and then the command
\* IND (write) stored through addresses 0x21 and 0x28 (R0 with execution), for TGS bits
\* 6-7 and for PAT bit 7
RowProgram(code) ==
    LET BusWrite(address, data) ==
            <<[as |-> 1, rw |-> 1, ad |-> address], [as |-> 0, rw |-> 1, ad |-> address],
              [as |-> 0, rw |-> 0, ad |-> data], [as |-> 0, rw |-> 1, ad |-> data]>>
    IN  BusWrite(33, (code % 4) * 64) \o BusWrite(40, 128 + EF9345_REG_INDIRECT_TGS)
            \o BusWrite(33, (code \div 4) * 128) \o BusWrite(40, 128 + EF9345_REG_INDIRECT_PAT)

\* program holds the bus cycles still to come, reloaded tells that the last tick
\* called _ef9345_load_char_row, before is the chip before the last tick
RowInit ==
    /\ vdp = ef9345_init
    /\ \E code \in 0 .. 7 :
          vdp_obs = [program |-> RowProgram(code), reloaded |-> FALSE, before |-> <<>>]
    /\ tc = <<>>
    /\ recorder = <<>>
    /\ tape_op = <<>>
    /\ dec = <<>>
    /\ sys = <<>>

\* ef9345_tick with the next bus cycle of the program, or with nothing selected
RowTick ==
    /\ vdp.current_line < MaxRowLine
    /\ LET c == IF vdp_obs.program # <<>> THEN Head(vdp_obs.program)
                ELSE [as |-> 0, rw |-> 1, ad |-> vdp.pins.ad]
           vdp_pins == [vdp.pins EXCEPT !.as = c.as, !.ds = 1, !.rw = c.rw, !.ad = c.ad]
       IN  \E t \in {ef9345_tick(vdp, vdp_pins, 0)} :
              /\ vdp' = t.vdp
              /\ vdp_obs' = [program |-> IF vdp_obs.program # <<>>
                                         THEN Tail(vdp_obs.program) ELSE <<>>,
                             reloaded |-> t.vdp.latest_loaded_row_line
                                              # vdp.latest_loaded_row_line
                                          /\ t.vdp.latest_loaded_row_line < 25,
                             before |-> vdp]
    /\ UNCHANGED <<tc, recorder, tape_op, dec, sys>>

SpecRow == RowInit /\ [][RowTick]_vars

\* C28: a row reload under character code 1, 2, 3 (40 columns variable, 80 columns
\* short, 80 columns long) or 5..7 fires the assertion of that mode and leaves
\* row_buffer as it was; under character code 0 or 4 it fills row_buffer with the row
\* and fires nothing. The codes are those set by the IND writes of TGS bits 6-7 and
\* PAT bit 7.
C28_UnimplementedModesAssert ==
    LET tgs == vdp.indirect_regs[EF9345_REG_INDIRECT_TGS]
        pat == vdp.indirect_regs[EF9345_REG_INDIRECT_PAT]
    IN  vdp_obs.reloaded
            => /\ vdp.char_code = (tgs \div 64) + 4 * (pat \div 128)
               /\ vdp.char_code \in {0, 4}
                    => /\ vdp.asserted = "none"
                       /\ vdp.row_loaded = vdp.latest_loaded_row_line
               /\ vdp.char_code \notin {0, 4}
                    => /\ vdp.row_loaded = vdp_obs.before.row_loaded
                       /\ vdp.asserted =
                            CASE vdp.char_code = 1 -> "EF9345: 40 var char mode not implemented"
                              [] vdp.char_code = 2 -> "EF9345: 80 short char mode not implemented"
                              [] vdp.char_code = 3 -> "EF9345: 80 long char mode not implemented"
                              [] OTHER -> "EF9345: Unknown character code"

\* row 1 is reloaded under the 40 columns variable mode set by TGS = 0x40
C28_Witness ==
    /\ vdp_obs.reloaded
    /\ vdp.latest_loaded_row_line = 1
    /\ vdp.indirect_regs[EF9345_REG_INDIRECT_TGS] = 64
    /\ vdp.char_code = 1
    /\ vdp.asserted = "EF9345: 40 var char mode not implemented"

(***************************************************************************)
(* SpecQuad: _ef9345_compute_quadrant_for_row applied row after row to the   *)
(* quadrant buffer, from the buffer the row 0 reload clears                  *)
(***************************************************************************)
\* the leftmost columns whose cells carry size attributes; the others are normal size
QuadCols == 2

\* The quadrant of column x: b is the byte b of each cell of row_buffer, q the
\* quadrant buffer, already recomputed for the columns left of x
QuadrantAt(q, b, x) ==
    LET is_double_height == BitAnd(b[x], 2) # 0
        is_double_width == BitAnd(b[x], 8) # 0
        is_double_size == is_double_height /\ is_double_width
        quadrant == IF x > 0
                    THEN CASE q[x - 1] = 5 /\ is_double_size -> 6
                           [] q[x - 1] = 9 /\ is_double_size -> 10
                           [] q[x - 1] = 1 /\ is_double_width -> 2
                           [] q[x] = 4 /\ is_double_height -> 8
                           [] OTHER -> 0
                    ELSE 0
    IN  IF quadrant # 0 THEN quadrant
        ELSE IF is_double_size THEN (IF q[x] = 5 THEN 9 ELSE 5)
        ELSE IF is_double_width THEN 1
        ELSE IF is_double_height THEN 4
        ELSE 0

\* The loop of _ef9345_compute_quadrant_for_row over the n columns from x, in order:
\* the first half and then the second on the buffer the first half leaves
RECURSIVE QuadrantFrom(_, _, _, _)
QuadrantFrom(q, b, x, n) ==
    IF n = 1 THEN [q EXCEPT ![x] = QuadrantAt(q, b, x)]
    ELSE Only({QuadrantFrom(left, b, x + n \div 2, n - n \div 2) :
                 left \in {QuadrantFrom(q, b, x, n \div 2)}})

\* _ef9345_compute_quadrant_for_row: the quadrant buffer after it
_ef9345_compute_quadrant_for_row(q, b) == QuadrantFrom(q, b, 0, EF9345_COLUMNS)

\* vdp holds the quadrant buffer; vdp_obs the bytes b of the row just computed and
\* the quadrant buffer before it
QuadInit ==
    /\ vdp = [quadrant_buffer |-> [x \in 0 .. EF9345_COLUMNS - 1 |-> 0]]
    /\ vdp_obs = [op |-> "init", b |-> <<>>, before |-> <<>>]
    /\ tc = <<>>
    /\ recorder = <<>>
    /\ tape_op = <<>>
    /\ dec = <<>>
    /\ sys = <<>>

\* the reload of a row 1..24: the row buffer holds any size attributes
QuadRow ==
    /\ \E a \in [0 .. QuadCols - 1 -> {0, 2, 8, 10}] :
          LET b == [x \in 0 .. EF9345_COLUMNS - 1 |-> IF x < QuadCols THEN a[x] ELSE 0]
          IN  /\ vdp' = [quadrant_buffer |->
                            _ef9345_compute_quadrant_for_row(vdp.quadrant_buffer, b)]
              /\ vdp_obs' = [op |-> "row", b |-> b, before |-> vdp.quadrant_buffer]
    /\ UNCHANGED <<tc, recorder, tape_op, dec, sys>>

\* the reload of row 0: memset of the quadrant buffer, then the quadrants of the row
QuadRowZero ==
    /\ vdp_obs.op = "row"
    /\ \E a \in [0 .. QuadCols - 1 -> {0, 2, 8, 10}] :
          LET b == [x \in 0 .. EF9345_COLUMNS - 1 |-> IF x < QuadCols THEN a[x] ELSE 0]
              zero == [x \in 0 .. EF9345_COLUMNS - 1 |-> 0]
          IN  /\ vdp' = [quadrant_buffer |-> _ef9345_compute_quadrant_for_row(zero, b)]
              /\ vdp_obs' = [op |-> "row0", b |-> b, before |-> zero]
    /\ UNCHANGED <<tc, recorder, tape_op, dec, sys>>

QuadNext == QuadRow \/ QuadRowZero

SpecQuad == QuadInit /\ [][QuadNext]_vars

\* C31 (as stated): after _ef9345_compute_quadrant_for_row, for every column x in
\* 0..39, a cell with double height only whose column held quadrant 4 from the row
\* before has quadrant 8, and a cell with double width only whose left neighbour has
\* quadrant 1 has quadrant 2.
C31_BottomAndRightQuadrants ==
    vdp_obs.op # "init"
        => \A x \in 0 .. 39 :
              /\ (BitAnd(vdp_obs.b[x], 10) = 2 /\ vdp_obs.before[x] = 4)
                    => vdp.quadrant_buffer[x] = 8
              /\ (BitAnd(vdp_obs.b[x], 10) = 8 /\ x > 0 /\ vdp.quadrant_buffer[x - 1] = 1)
                    => vdp.quadrant_buffer[x] = 2

(***************************************************************************)
(* SpecShort: _ef9345_load_char_row_40_short applied to rows of video RAM     *)
(***************************************************************************)
\* the leftmost columns whose cells vary; the others hold the bytes 0, 0
ShortCols == 4

\* The bytes A', B' of a cell: two delimiters (colour 5 with underline, insert and
\* conceal; colour 2 with none), a graphic cell of colour 3, an alphanumeric cell
ShortCells ==
    {[a |-> 5, b |-> 135], [a |-> 2, b |-> 128], [a |-> 131, b |-> 0], [a |-> 65, b |-> 0]}

\* mutant: a graphic cell leaves the latched background colour as it was
ShortCell_graphic_keeps_latch(data_a_prime, data_b_prime, l) ==
    IF BitAnd(data_b_prime, 224) = 128
    THEN LET n == [underline |-> Shl(BitAnd(data_b_prime, 4), 2),
                   insert |-> Shr(BitAnd(data_b_prime, 2), 1),
                   conceal |-> Shl(BitAnd(data_b_prime, 1), 2),
                   background_color |-> BitAnd(data_a_prime, 7)]
         IN  [l |-> n, a |-> data_a_prime, c |-> 0,
              b |-> BitOr(BitOr(32, n.underline), BitOr(n.conceal, n.insert))]
    ELSE IF BitAnd(data_a_prime, 128) # 0
    THEN [l |-> l,
          a |-> BitAnd(data_a_prime, 127), c |-> data_b_prime,
          b |-> BitOr(BitOr(BitAnd(data_b_prime, 128), 32), BitOr(l.conceal, l.insert))]
    ELSE [l |-> l, c |-> data_b_prime,
          a |-> BitOr(BitOr(U8(Shl(BitAnd(data_a_prime, 64), 1)), Shl(BitAnd(data_a_prime, 7), 4)),
                      BitOr(BitAnd(data_a_prime, 8), l.background_color)),
          b |-> BitOr(BitOr(BitAnd(data_b_prime, 128), l.underline),
                      BitOr(BitOr(Shr(BitAnd(data_a_prime, 32), 2), l.conceal),
                            BitOr(Shr(BitAnd(data_a_prime, 16), 3), l.insert)))]

\* The cell of column x: the three bytes put in row_buffer[x] and the latches after
\* it, from the bytes read and the latches l before it
ShortCell(data_a_prime, data_b_prime, l) ==
    IF BitAnd(data_b_prime, 224) = 128
    THEN LET n == [underline |-> Shl(BitAnd(data_b_prime, 4), 2),
                   insert |-> Shr(BitAnd(data_b_prime, 2), 1),
                   conceal |-> Shl(BitAnd(data_b_prime, 1), 2),
                   background_color |-> BitAnd(data_a_prime, 7)]
         IN  [l |-> n, a |-> data_a_prime, c |-> 0,
              b |-> BitOr(BitOr(32, n.underline), BitOr(n.conceal, n.insert))]
    ELSE IF BitAnd(data_a_prime, 128) # 0
    THEN [l |-> [l EXCEPT !.background_color = BitAnd(data_a_prime, 7)],
          a |-> BitAnd(data_a_prime, 127), c |-> data_b_prime,
          b |-> BitOr(BitOr(BitAnd(data_b_prime, 128), 32), BitOr(l.conceal, l.insert))]
    ELSE [l |-> l, c |-> data_b_prime,
          a |-> BitOr(BitOr(U8(Shl(BitAnd(data_a_prime, 64), 1)), Shl(BitAnd(data_a_prime, 7), 4)),
                      BitOr(BitAnd(data_a_prime, 8), l.background_color)),
          b |-> BitOr(BitOr(BitAnd(data_b_prime, 128), l.underline),
                      BitOr(BitOr(Shr(BitAnd(data_a_prime, 32), 2), l.conceal),
                            BitOr(Shr(BitAnd(data_a_prime, 16), 3), l.insert)))]

\* The loop of _ef9345_load_char_row_40_short over the n columns from x with the
\* latches l before them: the latches after them and their row_buffer triplets. The
\* columns are taken in order, the first half and then the second with the latches
\* the first half leaves.
RECURSIVE ShortFrom(_, _, _, _, _)
ShortFrom(v, actual_row, x, n, l) ==
    IF n = 1
    THEN LET address == _ef9345_triplet_to_physical_address(x, actual_row, v.block_origin)
         IN  Only({[l |-> cell.l,
                    row_buffer |-> <<[a |-> cell.a, b |-> cell.b, c |-> cell.c]>>] :
                     cell \in {ShortCell(mem_rd(v.ram, address),
                                         mem_rd(v.ram, address + 1024), l)}})
    ELSE Only({Only({[l |-> right.l, row_buffer |-> left.row_buffer \o right.row_buffer] :
                       right \in {ShortFrom(v, actual_row, x + n \div 2, n - n \div 2,
                                            left.l)}}) :
                 left \in {ShortFrom(v, actual_row, x, n \div 2, l)}})

\* the row of video RAM a screen row is loaded from
ActualRow(v, screen_row) ==
    IF screen_row > 0
    THEN LET r == U8(v.origin_row_yor + screen_row - 1)
         IN  IF r > 31 THEN r - 24 ELSE r
    ELSE 0

\* _ef9345_load_char_row_40_short: row_buffer after it, as the sequence of the
\* triplets of columns 0..39
_ef9345_load_char_row_40_short(v, screen_row) ==
    ShortFrom(v, ActualRow(v, screen_row), 0, EF9345_COLUMNS,
              [underline |-> 0, insert |-> 0, conceal |-> 0, background_color |-> 0]).row_buffer

\* the video RAM with the cells stored at the columns 0.. of row y of block z
RECURSIVE ShortRam(_, _, _, _)
ShortRam(cells, x, y, z) ==
    IF x = 0 THEN <<>>
    ELSE LET address == _ef9345_triplet_to_physical_address(x - 1, y, z)
         IN  mem_wr(mem_wr(ShortRam(cells, x - 1, y, z), address, cells[x].a),
                    address + 1024, cells[x].b)

\* The chip in 40 columns short mode (PAT bit 7), with cells in the video RAM row of
\* screen row 1; vdp_obs.cells are those cells, vdp_obs.row_buffer the row buffer
ShortInit ==
    /\ \E cells \in [1 .. ShortCols -> ShortCells] :
          /\ vdp = _ef9345_recompute_configuration(
                      [ef9345_init EXCEPT !.indirect_regs[EF9345_REG_INDIRECT_PAT] = 128,
                                          !.ram = ShortRam(cells, ShortCols, 0, 0)])
          /\ vdp_obs = [op |-> "init", cells |-> cells, row_buffer |-> <<>>]
    /\ tc = <<>>
    /\ recorder = <<>>
    /\ tape_op = <<>>
    /\ dec = <<>>
    /\ sys = <<>>

\* _ef9345_load_char_row for screen row 1
ShortLoad ==
    /\ vdp_obs.op = "init"
    /\ vdp' = _ef9345_load_char_row(vdp, 1)
    /\ vdp_obs' = [vdp_obs EXCEPT !.op = "loaded",
                                  !.row_buffer = _ef9345_load_char_row_40_short(vdp, 1)]
    /\ UNCHANGED <<tc, recorder, tape_op, dec, sys>>

SpecShort == ShortInit /\ [][ShortLoad]_vars

\* the bytes A', B' of column x as the load reads them
ShortByte(x) == IF x < ShortCols THEN vdp_obs.cells[x + 1] ELSE [a |-> 0, b |-> 0]

\* the nearest column before x whose cell satisfies P, -1 if there is none
ShortNearest(x, P(_)) ==
    LET S == {j \in 0 .. x - 1 : P(ShortByte(j))}
    IN  IF S = {} THEN -1 ELSE CHOOSE j \in S : \A k \in S : k <= j

ShortIsDel(cell) == BitAnd(cell.b, 224) = 128

ShortIsDelOrGraph(cell) == ShortIsDel(cell) \/ BitAnd(cell.a, 128) # 0

\* C32 (as stated): after the 40 columns short load, in every column that is not a
\* delimiter the background colour in the row buffer is the colour of the nearest
\* delimiter before it in the row (0 if none), and the underline, conceal and insert
\* flags are those of that delimiter.
C32_LatchedFromDelimiter ==
    vdp_obs.op = "loaded"
        => \A x \in 0 .. EF9345_COLUMNS - 1 :
              LET d == ShortNearest(x, ShortIsDel)
                  del == IF d < 0 THEN [a |-> 0, b |-> 0] ELSE ShortByte(d)
                  cell == vdp_obs.row_buffer[x + 1]
              IN  ~ShortIsDel(ShortByte(x))
                    => /\ BitAnd(cell.a, 7) = BitAnd(del.a, 7)
                       /\ BitAnd(cell.b, 16) = Shl(BitAnd(del.b, 4), 2)
                       /\ BitAnd(cell.b, 4) = Shl(BitAnd(del.b, 1), 2)
                       /\ BitAnd(cell.b, 1) = Shr(BitAnd(del.b, 2), 1)

\* C32 (amended): in every alphanumeric column the background colour is the colour
\* of the nearest delimiter or graphic cell before it (0 if none) and the underline,
\* conceal and insert flags are those of the nearest delimiter before it; in every
\* graphic column the colour is the cell's own, the conceal and insert flags are those
\* of the nearest delimiter before it, and there is no underline flag.
C32_LatchedFromDelimiterOrGraphic ==
    vdp_obs.op = "loaded"
        => \A x \in 0 .. EF9345_COLUMNS - 1 :
              LET d == ShortNearest(x, ShortIsDel)
                  g == ShortNearest(x, ShortIsDelOrGraph)
                  del == IF d < 0 THEN [a |-> 0, b |-> 0] ELSE ShortByte(d)
                  col == IF g < 0 THEN 0 ELSE BitAnd(ShortByte(g).a, 7)
                  cell == vdp_obs.row_buffer[x + 1]
                  is_graph == BitAnd(ShortByte(x).a, 128) # 0
              IN  ~ShortIsDel(ShortByte(x))
                    => /\ BitAnd(cell.a, 7) = IF is_graph THEN BitAnd(ShortByte(x).a, 7) ELSE col
                       /\ BitAnd(cell.b, 16) = IF is_graph THEN 0 ELSE Shl(BitAnd(del.b, 4), 2)
                       /\ BitAnd(cell.b, 4) = Shl(BitAnd(del.b, 1), 2)
                       /\ BitAnd(cell.b, 1) = Shr(BitAnd(del.b, 2), 1)

\* a delimiter of colour 5, a graphic cell of colour 3, then an alphanumeric cell: it
\* has the colour of the graphic cell and the flags of the delimiter
C32_Witness ==
    /\ vdp_obs.op = "loaded"
    /\ vdp_obs.cells[1] = [a |-> 5, b |-> 135]
    /\ vdp_obs.cells[2] = [a |-> 131, b |-> 0]
    /\ vdp_obs.cells[3] = [a |-> 65, b |-> 0]
    /\ BitAnd(vdp_obs.row_buffer[3].a, 7) = 3
    /\ BitAnd(vdp_obs.row_buffer[3].b, 21) = 21

(***************************************************************************)
(* SpecFill: the pulse buffer of the tape codec filled to its capacity      *)
(***************************************************************************)
\* toggles whose length is free; the later ones are long pulses
MaxFillPulses == 6

\* toggles in all
MaxFillToggles == 30

\* A hold of the pins longer than the 16-bit tick counter counts: 65536 ticks and a
\* long pulse
FillLongHold == Shl(1, 16) + 1600

\* The lengths of the free holds
FillRunLens == CodecRunLens \cup {FillLongHold}

\* What the environment has done: the last operation, the codec before it, the pulse
\* a toggle stored, whether a tick took the edge block, the motor-on ticks since the
\* last edge (held), the motor-on ticks from the edge before to the last edge (gap),
\* and the counters the bounds are on
FillInit ==
    /\ recorder = tape_recorder_init
    /\ tape_op = [op |-> "init", before |-> tape_recorder_init.tape_codec,
                  pulse |-> 0, edge |-> FALSE, held |-> 0, gap |-> 0,
                  toggles |-> 0, ejects |-> 0, inserts |-> 0]
    /\ tc = <<>>
    /\ vdp = <<>>
    /\ vdp_obs = <<>>
    /\ dec = <<>>
    /\ sys = <<>>

\* The CPU toggles the write-data bit with the motor bit set and holds the pins for
\* n ticks
FillToggle ==
    /\ tape_op.toggles < MaxFillToggles
    /\ \E n \in IF tape_op.toggles < MaxFillPulses THEN FillRunLens ELSE {1600} :
          LET data == 2 + (1 - recorder.data_value)
              edge == TapeEdgeTaken(recorder, CodecWriteBus, data)
          IN  \E r \in {tape_recorder_tick_n(recorder, CodecWriteBus, data, n)} :
                 /\ recorder' = r
                 /\ tape_op' = [tape_op EXCEPT
                                  !.op = "toggle",
                                  !.before = recorder.tape_codec,
                                  !.pulse = U16(recorder.tick_counter + 1),
                                  !.edge = edge,
                                  !.held = IF edge THEN n - 1 ELSE tape_op.held + n,
                                  !.gap = IF edge THEN tape_op.held + 1 ELSE tape_op.gap,
                                  !.toggles = tape_op.toggles + 1]
    /\ UNCHANGED <<tc, vdp, vdp_obs, dec, sys>>

\* Once, at any time: the tape is ejected
FillEject ==
    /\ tape_op.ejects = 0
    /\ recorder' = tape_recorder_eject_tape(recorder)
    /\ tape_op' = [tape_op EXCEPT !.op = "eject", !.before = recorder.tape_codec,
                                  !.edge = FALSE, !.ejects = 1]
    /\ UNCHANGED <<tc, vdp, vdp_obs, dec, sys>>

\* Once, at any time: a tape is inserted
FillInsert ==
    /\ tape_op.inserts = 0
    /\ recorder' = tape_recorder_insert_tape(recorder, ImageA).recorder
    /\ tape_op' = [tape_op EXCEPT !.op = "insert", !.before = recorder.tape_codec,
                                  !.edge = FALSE, !.inserts = 1]
    /\ UNCHANGED <<tc, vdp, vdp_obs, dec, sys>>

FillNext == FillToggle \/ FillEject \/ FillInsert

SpecFill == FillInit /\ [][FillNext]_vars

\* the codec of the last edge once the pulse is stored, before the decoding step
FillStored ==
    IF tape_op.before.pos < VG5000_MAX_CODEC_SIZE
    THEN [tape_op.before EXCEPT !.ticks_buf[tape_op.before.pos] = tape_op.pulse,
                                !.pos = tape_op.before.pos + 1]
    ELSE tape_op.before

\* the samples the last edge consumed
FillConsumed == FillStored.pos - recorder.tape_codec.pos

C40_DurationIsTrueGap ==
    (tape_op.op = "toggle" /\ tape_op.edge)
        => /\ tape_op.pulse = tape_op.gap
           /\ tape_op.gap > 2000
                 => ~_is_long_tick(tape_op.pulse) /\ ~_is_short_tick(tape_op.pulse)

(***************************************************************************)
(* SpecPtr: the CPU stores a pointer register and dispatches a command      *)
(***************************************************************************)
\* The bytes the CPU stores in R5 or R7: columns 0, 39, 40 and 63 with the upper
\* bits clear, and columns 39, 40 and 63 with upper bits set
PtrBytes == {0, 39, 40, 63, 167, 168, 255}

\* The commands dispatched: KRG write and read, with and without increment, OCT on
\* the main and on the auxiliary pointer, and IND (read of ROR)
PtrCommands == {2, 3, 10, 48, 49, 52, 53, 56, 60, 143}

\* The bus cycles of the CPU that store `data` in register reg through address
\* 0x20 + reg and then the command through address 0x28 (R0 with execution)
PtrProgram(reg, data, command) ==
    LET BusWrite(address, d) ==
            <<[as |-> 1, rw |-> 1, ad |-> address], [as |-> 0, rw |-> 1, ad |-> address],
              [as |-> 0, rw |-> 0, ad |-> d], [as |-> 0, rw |-> 1, ad |-> d]>>
    IN  BusWrite(32 + reg, data) \o BusWrite(40, command)

\* program holds the bus cycles still to come, before is the chip before the last
\* tick, executed tells that the last tick dispatched a command
PtrInit ==
    /\ vdp = ef9345_init
    /\ \E reg \in {5, 7}, data \in PtrBytes, command \in PtrCommands :
          vdp_obs = [program |-> PtrProgram(reg, data, command), before |-> <<>>,
                     executed |-> FALSE]
    /\ tc = <<>>
    /\ recorder = <<>>
    /\ tape_op = <<>>
    /\ dec = <<>>
    /\ sys = <<>>

\* ef9345_tick with the next bus cycle of the program
PtrTick ==
    /\ vdp_obs.program # <<>>
    /\ LET c == Head(vdp_obs.program)
           vdp_pins == [vdp.pins EXCEPT !.as = c.as, !.ds = 1, !.rw = c.rw, !.ad = c.ad]
       IN  \E t \in {ef9345_tick(vdp, vdp_pins, 0)} :
              /\ vdp' = t.vdp
              /\ vdp_obs' = [program |-> Tail(vdp_obs.program), before |-> vdp,
                             executed |-> t.executed]
    /\ UNCHANGED <<tc, recorder, tape_op, dec, sys>>

SpecPtr == PtrInit /\ [][PtrTick]_vars

\* C35 (as stated): the column assertions of _ef9345_mp_to_physical_address and
\* _ef9345_ap_to_physical_address never fail in a state reached through the bus.
C35_ColumnAssertionsHold == vdp.asserted \notin {"mp: x < 40", "ap: x < 40"}

(***************************************************************************)
(* SpecCharset: glyph slices read from the charset ROM before and after a   *)
(* reset                                                                   *)
(***************************************************************************)
\* Resets in a behaviour
MaxCharsetResets == 1

\* The slice addresses read: slices 0 and 9 of character 0 and slice 0 of
\* character 1, from base_char_address 0x0800
CharsetAddrs == {2048, 2084, 2049}

\* The charsets installed: every content of these slices out of three bytes
CharsetRoms == [CharsetAddrs -> {0, 60, 255}]

\* What the read of a slice through the zeroed charset_mem can yield: the program
\* ends (-1), or a byte
CharsetUndefined == {-1, 0, 255}

\* installed is the charset ef9345_init was given, value the slice last read
CharsetInit ==
    /\ \E rom \in CharsetRoms :
          /\ vdp = ef9345_init_charset(rom)
          /\ vdp_obs = [op |-> "init", installed |-> rom, address |-> 0, value |-> 0,
                        resets |-> 0]
    /\ tc = <<>>
    /\ recorder = <<>>
    /\ tape_op = <<>>
    /\ dec = <<>>
    /\ sys = <<>>

\* The rendering reads a glyph slice
CharsetRead ==
    /\ vdp_obs.value # -1
    /\ \E a \in CharsetAddrs, u \in CharsetUndefined :
          vdp_obs' = [vdp_obs EXCEPT !.op = "read", !.address = a,
                                     !.value = charset_rd(vdp, a, u)]
    /\ UNCHANGED <<vdp, tc, recorder, tape_op, dec, sys>>

\* ef9345_reset, also called by vg5000_reset
CharsetReset ==
    /\ vdp_obs.value # -1
    /\ vdp_obs.resets < MaxCharsetResets
    /\ vdp' = ef9345_reset
    /\ vdp_obs' = [vdp_obs EXCEPT !.op = "reset", !.resets = vdp_obs.resets + 1]
    /\ UNCHANGED <<tc, recorder, tape_op, dec, sys>>

CharsetNext == CharsetRead \/ CharsetReset

SpecCharset == CharsetInit /\ [][CharsetNext]_vars

\* C38 (as stated): a reset preserves the charset ROM installed by ef9345_init: a
\* glyph slice read after a reset is the slice of the installed charset.
C38_CharsetSurvivesReset ==
    (vdp_obs.op = "read" /\ vdp_obs.resets > 0)
        => vdp_obs.value = vdp_obs.installed[vdp_obs.address]

(***************************************************************************)
(* SpecDecoder: the 7807 decoder applied to every combination of the CPU     *)
(* pins it reads and of the pins it drives                                   *)
(***************************************************************************)
DecInit ==
    /\ \E a7 \in {0, 1}, a6 \in {0, 1}, a5 \in {0, 1},
          rd \in {0, 1}, wr \in {0, 1}, iorq \in {0, 1},
          as \in {0, 1}, ds \in {0, 1}, rw \in {0, 1}, service_bus \in 0 .. 7 :
            dec = [op |-> "none",
                   cpu_pins |-> [CpuPinsZero EXCEPT !.a7 = a7, !.a6 = a6, !.a5 = a5,
                                                    !.rd = rd, !.wr = wr, !.iorq = iorq],
                   output |-> 255,
                   vdp_pins |-> [PinsZero EXCEPT !.as = as, !.ds = ds, !.rw = rw],
                   service_bus |-> service_bus]
    /\ tc = <<>>
    /\ recorder = <<>>
    /\ tape_op = <<>>
    /\ vdp = <<>>
    /\ vdp_obs = <<>>
    /\ sys = <<>>

DecDecode ==
    /\ dec.op = "none"
    /\ \E d \in {_vg5000_7807_decoder(dec.cpu_pins, dec.vdp_pins, dec.service_bus)} :
          dec' = [dec EXCEPT !.op = "decode",
                             !.output = Decoder7807Output(dec.cpu_pins),
                             !.vdp_pins = d.vdp_pins,
                             !.service_bus = d.service_bus]
    /\ UNCHANGED <<tc, recorder, tape_op, vdp, vdp_obs, sys>>

DecNext == DecDecode

SpecDecoder == DecInit /\ [][DecNext]_vars

\* chip enable: A7 high and (RD or WR) together with IORQ
ChipEnable(cpu_pins) ==
    cpu_pins.a7 = 1 /\ (cpu_pins.rd = 1 \/ cpu_pins.wr = 1) /\ cpu_pins.iorq = 1

ServiceBit(service_bus, pin) == Shr(service_bus, pin) % 2

\* C3 as stated: with chip enable false, every output is deasserted and the
\* address-strobe pin is high, as DS, R/W, RKY, RK7 and WK7 are
C3_IdleAllHigh ==
    (dec.op = "decode" /\ ~ChipEnable(dec.cpu_pins))
        => /\ dec.vdp_pins.as = 1
           /\ dec.vdp_pins.ds = 1 /\ dec.vdp_pins.rw = 1
           /\ ServiceBit(dec.service_bus, SERVICE_BUS_PIN_RKY) = 1
           /\ ServiceBit(dec.service_bus, SERVICE_BUS_PIN_RK7) = 1
           /\ ServiceBit(dec.service_bus, SERVICE_BUS_PIN_WK7) = 1

\* C3: with chip enable false, whatever the other CPU pins are, the decoder leaves
\* every output deasserted: the address-strobe pin low (it is driven with the
\* inverse of output line 0), DS and R/W high, RKY, RK7 and WK7 high
C3_IdleDeasserted ==
    (dec.op = "decode" /\ ~ChipEnable(dec.cpu_pins))
        => /\ dec.vdp_pins.as = 0
           /\ dec.vdp_pins.ds = 1 /\ dec.vdp_pins.rw = 1
           /\ ServiceBit(dec.service_bus, SERVICE_BUS_PIN_RKY) = 1
           /\ ServiceBit(dec.service_bus, SERVICE_BUS_PIN_RK7) = 1
           /\ ServiceBit(dec.service_bus, SERVICE_BUS_PIN_WK7) = 1

\* the decoder has run with IORQ low while AS was high and the service lines low
C3_Witness ==
    /\ dec.op = "decode"
    /\ dec.cpu_pins.a7 = 1 /\ dec.cpu_pins.wr = 1 /\ dec.cpu_pins.iorq = 0
    /\ dec.vdp_pins = [PinsZero EXCEPT !.ds = 1, !.rw = 1]
    /\ dec.service_bus = 7

\* the decoded lines that are low in an output byte
LowLines(output) == {k \in 0 .. 7 : Bit(output, k) = 0}

\* C4: with chip enable asserted exactly one of the eight decoded lines is low, the
\* one numbered (inverted WR, A6, A5); with chip enable deasserted none is low
C4_OneLineLow ==
    dec.op = "decode"
        => LowLines(dec.output) =
              IF ChipEnable(dec.cpu_pins)
              THEN {(4 * (1 - dec.cpu_pins.wr)) + (2 * dec.cpu_pins.a6) + dec.cpu_pins.a5}
              ELSE {}

\* an OUT to an address with A7 and A6 high and A5 low selects line 2
C4_Witness ==
    /\ dec.op = "decode"
    /\ dec.cpu_pins.a7 = 1 /\ dec.cpu_pins.a6 = 1 /\ dec.cpu_pins.a5 = 0
    /\ dec.cpu_pins.wr = 1 /\ dec.cpu_pins.rd = 0 /\ dec.cpu_pins.iorq = 1
    /\ dec.output = 251
    /\ dec.vdp_pins.rw = 0

(***************************************************************************)
(* SpecSys: vg5000_exec, its tick loop with the debug hook, reset and the    *)
(* triangle key                                                              *)
(***************************************************************************)
\* calls of _vg5000_tick in one behaviour
MaxSysTicks == 3

\* the largest tick count of one vg5000_exec
MaxExecTicks == 2

\* Pins z80_tick returns: no access, OUT selecting line 0 (AS) and line 2 (R/W),
\* IN selecting line 6 (DS) and line 4 (RKY)
CpuControls ==
    {CpuPinsZero,
     [CpuPinsZero EXCEPT !.a7 = 1, !.wr = 1, !.iorq = 1],
     [CpuPinsZero EXCEPT !.a7 = 1, !.a6 = 1, !.wr = 1, !.iorq = 1],
     [CpuPinsZero EXCEPT !.a7 = 1, !.a6 = 1, !.rd = 1, !.iorq = 1],
     [CpuPinsZero EXCEPT !.a7 = 1, !.rd = 1, !.iorq = 1]}

\* Data bus bytes: 0x21 (address of R1) and 0xFF
CpuData == {33, 255}

\* what kbd_test_lines returns: no key, or the key of column 0
KbdColumns == {0, 1}

\* vg5000_init: the structure after memset 0 and ef9345_init; the debug hook and its
\* stopped flag are the caller's
SysInit ==
    /\ \E has_hook \in BOOLEAN, stopped \in BOOLEAN :
        /\ has_hook \/ ~stopped
        /\ sys = [pc |-> "idle", op |-> "init", has_hook |-> has_hook, stopped |-> stopped,
                  num_ticks |-> 0, ticks |-> 0, retval |-> 0, total |-> 0,
                  pins |-> CpuPinsZero, cpu_pins |-> CpuPinsZero, vdp_pins |-> PinsZero,
                  service_bus |-> 0, nmi |-> FALSE]
    /\ vdp = ef9345_init
    /\ tc = <<>>
    /\ recorder = <<>>
    /\ tape_op = <<>>
    /\ vdp_obs = <<>>
    /\ dec = <<>>

\* vg5000_exec up to its loop: num_ticks from the micro seconds, pins from cpu_pins
SysExecStart ==
    /\ sys.pc = "idle"
    /\ sys.total < MaxSysTicks
    /\ \E num_ticks \in 0 .. MaxExecTicks :
        sys' = [sys EXCEPT !.pc = "loop", !.op = "exec_start", !.num_ticks = num_ticks,
                           !.ticks = 0, !.pins = sys.cpu_pins]
    /\ UNCHANGED <<tc, recorder, tape_op, vdp, vdp_obs, dec>>

\* One iteration of the loop of vg5000_exec: _vg5000_tick, then the debug hook, which
\* may set the stopped flag
SysExecTick ==
    /\ sys.pc = "loop"
    /\ sys.ticks < sys.num_ticks
    /\ sys.has_hook => ~sys.stopped
    /\ sys.total < MaxSysTicks
    /\ \E c \in CpuControls, data \in CpuData,
          stop \in (IF sys.has_hook THEN BOOLEAN ELSE {FALSE}) :
        \E d \in {_vg5000_7807_decoder(c, vdp.pins, sys.service_bus)} :
        \E oob \in OobOutcomes(vdp, [d.vdp_pins EXCEPT !.ad = data]),
           columns \in (IF d.service_bus % 2 = 0 /\ c.a3 = 0 THEN KbdColumns ELSE {0}) :
        \E t \in {_vg5000_tick(sys, vdp, [c EXCEPT !.data = data], oob, columns)} :
            /\ vdp' = t.vdp
            /\ sys' = [t.sys EXCEPT !.op = "exec_tick", !.pins = t.cpu_pins,
                                    !.ticks = sys.ticks + 1, !.total = sys.total + 1,
                                    !.stopped = stop]
    /\ UNCHANGED <<tc, recorder, tape_op, vdp_obs, dec>>

\* vg5000_exec after its loop: the pins are saved, the NMI request is cleared and
\* num_ticks is returned
SysExecReturn ==
    /\ sys.pc = "loop"
    /\ ~(sys.ticks < sys.num_ticks /\ (sys.has_hook => ~sys.stopped))
    /\ sys' = [sys EXCEPT !.pc = "idle", !.op = "exec_return", !.cpu_pins = sys.pins,
                          !.nmi = FALSE, !.retval = sys.num_ticks]
    /\ UNCHANGED <<tc, recorder, tape_op, vdp, vdp_obs, dec>>

\* the debugger behind the hook clears the stopped flag between two calls
SysDebugContinue ==
    /\ sys.pc = "idle"
    /\ sys.stopped
    /\ sys' = [sys EXCEPT !.op = "continue", !.stopped = FALSE]
    /\ UNCHANGED <<tc, recorder, tape_op, vdp, vdp_obs, dec>>

\* vg5000_triangle_key_pressed
SysTriangleKey ==
    /\ sys.pc = "idle"
    /\ ~sys.nmi
    /\ sys' = [sys EXCEPT !.op = "triangle", !.nmi = TRUE]
    /\ UNCHANGED <<tc, recorder, tape_op, vdp, vdp_obs, dec>>

\* vg5000_reset: cpu_pins from z80_reset, and ef9345_reset
SysReset ==
    /\ sys.pc = "idle"
    /\ sys.op = "exec_return"
    /\ \E c \in {CpuPinsZero, [CpuPinsZero EXCEPT !.mreq = 1, !.rd = 1]} :
        sys' = [sys EXCEPT !.op = "reset", !.cpu_pins = c]
    /\ vdp' = ef9345_reset
    /\ UNCHANGED <<tc, recorder, tape_op, vdp_obs, dec>>

SysNext ==
    \/ SysExecStart
    \/ SysExecTick
    \/ SysExecReturn
    \/ SysDebugContinue
    \/ SysTriangleKey
    \/ SysReset

SpecSys == SysInit /\ [][SysNext]_vars

\* C2: vg5000_exec returns the number of ticks it executed: k when the hook set the
\* stop flag after k < N ticks, N otherwise
C2_ExecReturnsTicksExecuted ==
    sys.op = "exec_return" => sys.retval = sys.ticks

====
